---- MODULE Spec2Model ----
(***************************************************************************)
(* A model of the pg_auto_failover test harness:                           *)
(*   - tests/network.py: VirtualLAN and VirtualNode, the kernel objects    *)
(*     they create and remove (network namespaces, veth pairs, a bridge);  *)
(*   - tests/pgautofailover_utils.py: Cluster, DataNode, MonitorNode,      *)
(*     StatefulNode and PGAutoCtl.                                         *)
(* The test driver is single-threaded: one action is one call of the       *)
(* driver (or one step of a loop of it), with the outcomes of the kernel   *)
(* and of the supervised processes chosen nondeterministically.            *)
(***************************************************************************)
EXTENDS Integers, Sequences, FiniteSets, TLC

\* ------------------------------------------------------------- bounds

\* Number of host addresses of the subnet (ipnet.hosts()); a /29 has 6.
NumHosts == 4

\* Longest argument list given to PGAutoCtl.execute or as argv.
MaxArgs == 3
\* The longest timeout of a wait, in polling intervals.
MaxTimeout == 3
\* The most timeouts of "pgsetup ready" nested in one print_debug_logs.
MaxNested == 1
\* The nodes of the cluster the waits run on, the monitor included.
ClusterSize == 3
\* The background processes one node spawns.
MaxRuns == 2

\* ------------------------------------------------------- network state

VARIABLES
    availableHosts,  \* VirtualLAN.availableHosts: the next host the iterator yields
    nodes,           \* VirtualLAN.nodes: the VirtualNode handles, in creation order
    netns,           \* kernel: the names of the network namespaces that exist
    interfaces,      \* kernel: every interface name -> its record
    bridge_nf,       \* the content of BRIDGE_NF_CALL_IPTABLES, NoFile when absent
    saved_bridge_nf, \* VirtualLAN.saved_bridge_nf_call_iptables
    issued,          \* history: how many times each address was handed out
    downed,          \* history: namespaces whose ifdown returned, no ifup since
    lastOp           \* the last call of the driver and how it ended

netVars == << availableHosts, nodes, netns, interfaces, bridge_nf,
              saved_bridge_nf, issued, downed, lastOp >>

\* ------------------------------------------------- command-line state

VARIABLES
    command,   \* PGAutoCtl.command: the command line, None before it is built
    lastArgs,  \* the arguments of the last set_command call
    built,     \* whether the last set_command call built the command line
    argv,      \* history: the argv the PGAutoCtl was constructed with
    spawned    \* history: the command line was spawned, by execute or by run

cmdVars == << command, lastArgs, built, argv, spawned >>

\* ------------------------------------------------------ cluster state

VARIABLES
    monitor,    \* Cluster.monitor: the namespace of the monitor node, or NoNode
    datanodes,  \* Cluster.datanodes: the namespaces of the data nodes, in order
    procs,      \* node -> its PGNode.pg_autoctl and the process behind it
    configs,    \* the nodes whose pg_autoctl configuration and state files exist
    signalled   \* history: nodes whose pg_autoctl got SIGTERM from the wait or
                \* the Cluster.destroy under way

procVars == << monitor, datanodes, procs, configs, signalled >>

\* ------------------------------------------------ a Cluster.destroy call

VARIABLES
    dpc,    \* where the call is
    todo,   \* list(reversed(self.datanodes)): what the loop has left
    snap,   \* history: the data nodes and the monitor when the call started
    trace   \* history: the teardowns started and the commands spawned, in order

dstVars == << dpc, todo, snap, trace >>

\* ------------------------------------- a wait_until_[assigned_]state call

VARIABLES
    wpc,          \* where the call is
    wkind,        \* "state": wait_until_state, "assigned": wait_until_assigned_state
    target_state, \* its argument
    sleep_time,   \* its argument
    wait_until,   \* its local: the deadline
    now,          \* the clock, 0 when the call started
    prev_state,   \* its local
    current,      \* the NodeState the last get_state returned
    polls,        \* history: how many times get_state returned to the call
    missed,       \* history: a poll before the last one reported the target
    drained,      \* history: the nodes whose pipes this iteration has read
    lines,        \* history: how many state lines the call has printed
    wlog          \* history: the steps of the loop body, in order

waitVars == << wpc, wkind, target_state, sleep_time, wait_until, now,
               prev_state, current, polls, missed, drained, lines, wlog >>

\* ------------------------------------------------- a one-shot command

VARIABLES
    xop,             \* the call made: execute, run_and_wait, set_...
    xend,            \* how the process of the command ended
    xres,            \* what the call returned or raised
    last_returncode, \* PGAutoCtl.last_returncode of the command
    xrounds          \* history: the runs of print_debug_logs inside the call

execVars == << xop, xend, xres, last_returncode, xrounds >>

\* ------------------------------ one PGNode, its PGAutoCtl and processes

VARIABLES
    held,       \* PGAutoCtl.run_proc: the process it holds the handle of, or 0
    pstate,     \* that process: "none", "running", "exited" or "gone"
    pcode,      \* the return code of that process once it has exited
    out,        \* PGAutoCtl.out, .err: the process whose output they hold, or 0
    spawns,     \* history: how many background processes the node has spawned
    releases,   \* history: process -> how many times its handle was released
    dropped,    \* history: processes whose handle was forgotten unreleased
    strays,     \* history: processes released outside of communicate
    orphans,    \* history: processes that ran when the node let go of them
    sigs,       \* history: processes that were sent SIGTERM
    sop,        \* the last call on the node
    sres,       \* what it returned or raised
    collected,  \* what the communicate that saw the process exit returned
    stick       \* flips with every call

supVars == << held, pstate, pcode, out, spawns, releases, dropped, strays,
              orphans, sigs, sop, sres, collected, stick >>

\* ---------------------------------------------------------- PGNode.fail

VARIABLES
    postgres,   \* node -> its Postgres: "down" or "up"
    fcall       \* the last fail(): its node, how it ended, what it left

failVars == << postgres, fcall >>

\* ------------------- a command run through VirtualNode.run, step by step

VARIABLES
    who,         \* the call under way: execute, run_and_wait, stop_postgres,
                 \* reload_postgres, or "none"
    cpc,         \* where the call is
    conmonitor,  \* the node of the call is the monitor
    ctimeout,    \* the timeout the wait was given
    cattempts,   \* stop_postgres: the attempts started
    cproc,       \* the process of the with block: "none", "running", "exited"
    creturncode, \* its returncode
    creleases,   \* history: how many times its handle was released
    clingers,    \* a process of a with block that is over is still alive
    cleaked,     \* history: a with block ended without releasing its handle
    ctogether,   \* history: two commands were alive on the node at a time
    cslices,     \* history: the wait slices of the call that are over
    cflushes,    \* history: the flush_output calls of the call
    cwaited,     \* history: the time the call has spent in blocking waits
    cdry,        \* history: of that, the time since the last flush_output
    cres         \* what the call returned or raised

runVars == << who, cpc, conmonitor, ctimeout, cattempts, cproc, creturncode,
              creleases, clingers, cleaked, ctogether, cslices, cflushes,
              cwaited, cdry, cres >>

vars == << netVars, cmdVars, procVars, waitVars, dstVars, execVars, supVars,
           failVars, runVars >>

\* What a specification of the network leaves alone.
notNet == << cmdVars, procVars, waitVars, dstVars, execVars,
    supVars, failVars, runVars >>

\* What a specification of the command line leaves alone.
notCmd == << netVars, procVars, waitVars, dstVars, execVars,
    supVars, failVars, runVars >>

\* What a specification of the waits leaves alone.
notWait == << netVars, cmdVars, dstVars, execVars,
    supVars, failVars, runVars >>

\* What the calls on the cluster leave alone, the network apart.
notCluster == << cmdVars, waitVars, execVars,
    supVars, failVars, runVars >>

\* What the one-shot commands leave alone.
notExec == << netVars, cmdVars, waitVars, dstVars,
    supVars, failVars, runVars >>

\* Hosts of the subnet, in the order ipnet.hosts() yields them.
Hosts == 1..NumHosts

\* A namespace "<prefix>-<i>" is named by i; there are never more names than
\* addresses left after the bridge took the first one.
Namespaces == 0..(NumHosts - 1)

\* The bridge "<prefix>-br"; the veth peer "<prefix>-<i>p" is named by i.
bridgeName == -1
IfNames == {bridgeName} \cup Namespaces
vethPeer(namespace) == namespace

NoFile == -1
NoAddress == 0

\* An interface that does not exist.
Absent == [present |-> FALSE, state |-> "down", master |-> FALSE,
           address |-> NoAddress]

\* ------------------------------------------------------ kernel objects

\* The kernel state the harness acts on, and the result of a call on it.
\* `busy` holds the kinds of object ("interface", "netns", "bridge") whose
\* deletion the kernel refuses (permission denied, device busy) during the
\* call; between calls it refuses nothing.
Kernel == [netns |-> netns, interfaces |-> interfaces, busy |-> {}]
BusyKinds == {{}, {"interface"}, {"netns"}, {"bridge"}}
Refusing(k, busy) == [k EXCEPT !.busy = busy]
Settled(k) == [k EXCEPT !.busy = {}]
KindOf(name) == IF name = bridgeName THEN "bridge" ELSE "interface"
Ok(k) == [kernel |-> k, raised |-> FALSE]
Raise(k) == [kernel |-> k, raised |-> TRUE]

\* The kernel's removal of interface `name`: a veth peer goes with its pair, a
\* bridge releases its ports.
LinkDelete(ifs, name) ==
    [i \in IfNames |->
        IF i = name THEN Absent
        ELSE IF name = bridgeName THEN [ifs[i] EXCEPT !.master = FALSE]
        ELSE ifs[i]]

\* ndb.interfaces[name].remove().commit(): an error when there is no such
\* interface.
interface_remove(k, name) ==
    IF k.interfaces[name].present /\ KindOf(name) \notin k.busy
    THEN Ok([k EXCEPT !.interfaces = LinkDelete(@, name)])
    ELSE Raise(k)

\* Mutant of remove_interface_if_exists: the removal without the test that
\* the interface exists.
remove_interface_unguarded(k, name) == interface_remove(k, name)

\* _remove_interface_if_exists(name): removes the interface when it exists,
\* returns silently otherwise.
remove_interface_if_exists(k, name) ==
    IF k.interfaces[name].present
    THEN Ok(interface_remove(k, name).kernel)
    ELSE Ok(k)

\* netns.remove(name): an error when there is no such namespace; the veth
\* pair that has one end inside the namespace goes with it.
netns_remove(k, name) ==
    IF name \in k.netns /\ "netns" \notin k.busy
    THEN Ok([busy |-> k.busy, netns |-> k.netns \ {name},
             interfaces |-> IF k.interfaces[vethPeer(name)].present
                            THEN LinkDelete(k.interfaces, vethPeer(name))
                            ELSE k.interfaces])
    ELSE Raise(k)

\* VirtualNode._remove_namespace_if_exists(name): try netns.remove, pass on
\* any exception.
remove_namespace_if_exists(k, name) == Ok(netns_remove(k, name).kernel)

\* The steps of create_node at which the kernel may refuse.
FailPoints == {"none", "netns_create", "veth_create", "add_port", "peer_up"}

\* VirtualNode._add_namespace(name, address, netmaskLength), with the kernel
\* refusing at `fail`: the kernel state it leaves and whether it raised.
add_namespace(k, name, address, fail) ==
    LET k1 == remove_namespace_if_exists(k, name).kernel
        k2 == [k1 EXCEPT !.netns = @ \cup {name}]
        k3 == remove_interface_if_exists(k2, vethPeer(name)).kernel
        \* veth0 is created up and moved into the namespace with the address;
        \* its peer stays on the host, down and without a master
        k4 == [k3 EXCEPT !.interfaces[vethPeer(name)] =
                   [present |-> TRUE, state |-> "down", master |-> FALSE,
                    address |-> address]]
    IN  IF fail = "netns_create" THEN Raise(k1)
        ELSE IF fail = "veth_create" THEN Raise(k3)
        ELSE Ok(k4)

\* VirtualLAN._add_interface_to_bridge(bridge, interface): KeyError when the
\* bridge or the interface is not there.
add_interface_to_bridge(k, bridge, interface, fail) ==
    LET attached == [k EXCEPT !.interfaces[interface].master = TRUE]
        up == [attached EXCEPT !.interfaces[interface].state = "up"]
    IN  IF \/ ~k.interfaces[bridge].present
           \/ ~k.interfaces[interface].present
           \/ fail = "add_port"
        THEN Raise(k)
        ELSE IF fail = "peer_up" THEN Raise(attached)
        ELSE Ok(up)

\* Mutant of Exhausted: an iterator that never ends.
never_exhausted(cursor) == FALSE

\* next(self.availableHosts) raises StopIteration: the iterator has yielded
\* every host of the subnet.
Exhausted(cursor) == cursor \notin Hosts

\* next(self.availableHosts): the address handed out when the iterator stands
\* at `cursor`.
NextHost(cursor) == cursor

\* Mutant of Advance: an iterator that yields the same host again.
AdvanceStuck(cursor) == cursor

\* The iterator after it yielded: it only moves forward.
Advance(cursor) == cursor + 1

\* ipnet.hosts() starts at the first host of the subnet, and the bridge takes
\* it: self.bridgeAddress = next(self.availableHosts).
FirstHost == 1
bridgeAddress == NextHost(FirstHost)

\* The namespace name of the node create_node is about to create:
\* "%s-%s" % (self.namePrefix, len(self.nodes)).
NodeName(ns) == Len(ns)

\* VirtualNode.destroy(): removes the veth peer, then the namespace; the
\* absence of either is not an error.
VirtualNode_destroy(k, node) ==
    LET r1 == remove_interface_if_exists(k, vethPeer(node.namespace))
        r2 == netns_remove(r1.kernel, node.namespace)
    IN  [kernel |-> r2.kernel, raised |-> r1.raised]

\* for node in self.nodes: node.destroy()
RECURSIVE DestroyNodes(_, _)
DestroyNodes(k, ns) ==
    IF ns = << >> THEN Ok(k)
    ELSE LET r == VirtualNode_destroy(k, Head(ns))
         IN  IF r.raised THEN r ELSE DestroyNodes(r.kernel, Tail(ns))

\* VirtualLAN.destroy(), the kernel part: every node, then the bridge.
VirtualLAN_destroy(k, ns) ==
    LET r1 == DestroyNodes(k, ns)
    IN  IF r1.raised THEN r1
        ELSE remove_interface_if_exists(r1.kernel, bridgeName)

\* ----------------------------------------------------- network actions

NoNode == -2
\* A call of the driver: what it was, on which namespace, whether it raised and
\* whether it changed the kernel state.
Op(op, node, raised, changed) ==
    [op |-> op, node |-> node, raised |-> raised, changed |-> changed,
     refused |-> {}]

\* The same for a call during which the kernel refused the deletion of the
\* objects of `refused`.
OpRefused(op, node, raised, changed, refused) ==
    [Op(op, node, raised, changed) EXCEPT !.refused = refused]

\* The VirtualLAN object with the kernel it acts on.
Lan == [kernel |-> Kernel, nodes |-> nodes, availableHosts |-> availableHosts,
        issued |-> issued]

\* VirtualLAN.__init__, the part that makes objects: the iterator over the
\* hosts, the empty node list and the bridge, up, with the first host.
VirtualLAN_init ==
    [kernel |-> [busy |-> {}, netns |-> {},
                 interfaces |-> [i \in IfNames |->
                     IF i = bridgeName
                     THEN [present |-> TRUE, state |-> "up", master |-> FALSE,
                           address |-> bridgeAddress]
                     ELSE Absent]],
     nodes |-> << >>,
     availableHosts |-> Advance(FirstHost),
     issued |-> [h \in Hosts |-> IF h = bridgeAddress THEN 1 ELSE 0]]

\* VirtualLAN.create_node(), the kernel refusing at `fail`: the VirtualLAN it
\* leaves, whether it raised and the namespace it worked on.
VirtualLAN_create_node(lan, fail) ==
    LET namespace == NodeName(lan.nodes)
        address == NextHost(lan.availableHosts)
        r1 == add_namespace(lan.kernel, namespace, address, fail)
        r2 == add_interface_to_bridge(r1.kernel, bridgeName,
                                      vethPeer(namespace), fail)
        r == IF r1.raised THEN r1 ELSE r2
    IN  IF Exhausted(lan.availableHosts)
        THEN \* next() raises StopIteration before anything is created
             [lan |-> lan, raised |-> TRUE, namespace |-> NoNode]
        ELSE [lan |-> [kernel |-> r.kernel,
                       nodes |-> IF r.raised THEN lan.nodes
                                 ELSE Append(lan.nodes,
                                             [namespace |-> namespace,
                                              address |-> address]),
                       availableHosts |-> Advance(lan.availableHosts),
                       issued |-> [lan.issued EXCEPT ![address] = @ + 1]],
              raised |-> r.raised,
              namespace |-> namespace]

\* The VirtualLAN after k create_node calls that all succeeded.
RECURSIVE LanAfter(_)
LanAfter(k) ==
    IF k = 0 THEN VirtualLAN_init
    ELSE VirtualLAN_create_node(LanAfter(k - 1), "none").lan

\* The network variables hold the VirtualLAN `lan`, on a host whose toggle
\* file held `original` (NoFile: there is no such file) before __init__
\* saved and zeroed it.
NetIs(lan, original) ==
    /\ availableHosts = lan.availableHosts
    /\ nodes = lan.nodes
    /\ netns = lan.kernel.netns
    /\ interfaces = lan.kernel.interfaces
    /\ issued = lan.issued
    /\ saved_bridge_nf = original
    /\ bridge_nf = (IF original = NoFile THEN NoFile ELSE 0)
    /\ downed = {}
    /\ lastOp = Op("init", NoNode, FALSE, TRUE)

\* VirtualLAN.__init__ has run.
NetInit == \E original \in {NoFile, 0, 1} : NetIs(VirtualLAN_init, original)

\* The network of a scenario that is about something else: a VirtualLAN just
\* constructed on a host without the toggle file.
NetIdle == NetIs(VirtualLAN_init, NoFile)

\* VirtualLAN.create_node(), the kernel refusing at `fail`.
create_node(fail) ==
    LET r == VirtualLAN_create_node(Lan, fail)
    IN  /\ (availableHosts \notin Hosts => fail = "none")
        /\ availableHosts' = r.lan.availableHosts
        /\ issued' = r.lan.issued
        /\ netns' = r.lan.kernel.netns
        /\ interfaces' = r.lan.kernel.interfaces
        /\ nodes' = r.lan.nodes
        /\ lastOp' = Op("create_node", r.namespace, r.raised,
                        r.lan.kernel # Kernel)
        /\ UNCHANGED << bridge_nf, saved_bridge_nf, downed >>

\* What of the objects of the nodes ns (and the bridge when asked) is there
\* for the kernel to refuse, when it refuses the kinds of busy. A destroy call
\* meets a refusal only for an object that is there to delete.
RefusedOf(k, ns, bridge, busy) ==
    {kind \in busy :
        \/ kind = "bridge" /\ bridge /\ k.interfaces[bridgeName].present
        \/ \E i \in 1..Len(ns) :
              \/ kind = "interface"
                    /\ k.interfaces[vethPeer(ns[i].namespace)].present
              \/ kind = "netns" /\ ns[i].namespace \in k.netns}

\* VirtualNode.destroy() on the i-th node handed out.
node_destroy(i) ==
    LET r == VirtualNode_destroy(Kernel, nodes[i])
    IN  /\ netns' = r.kernel.netns
        /\ interfaces' = r.kernel.interfaces
        /\ lastOp' = Op("node_destroy", nodes[i].namespace, r.raised,
                        r.kernel # Kernel)
        /\ UNCHANGED << availableHosts, nodes, bridge_nf, saved_bridge_nf,
                        issued, downed >>

\* Mutant of lan_destroy: the toggle is left as __init__ wrote it.
lan_destroy_no_restore(busy) ==
    LET r == VirtualLAN_destroy(Refusing(Kernel, busy), nodes)
    IN  /\ RefusedOf(Kernel, nodes, TRUE, busy) = busy
        /\ netns' = r.kernel.netns
        /\ interfaces' = r.kernel.interfaces
        /\ lastOp' = OpRefused("lan_destroy", NoNode, r.raised,
                               Settled(r.kernel) # Kernel,
                               RefusedOf(Kernel, nodes, TRUE, busy))
        /\ UNCHANGED << availableHosts, nodes, saved_bridge_nf, issued,
                        downed, bridge_nf >>

\* VirtualLAN.destroy(): the nodes, the bridge, then the toggle is restored;
\* the kernel refuses the deletions of busy.
lan_destroy(busy) ==
    LET r == VirtualLAN_destroy(Refusing(Kernel, busy), nodes)
    IN  /\ RefusedOf(Kernel, nodes, TRUE, busy) = busy
        /\ netns' = r.kernel.netns
        /\ interfaces' = r.kernel.interfaces
        /\ bridge_nf' = IF ~r.raised /\ saved_bridge_nf # NoFile
                        THEN saved_bridge_nf ELSE bridge_nf
        /\ lastOp' = OpRefused("lan_destroy", NoNode, r.raised,
                               Settled(r.kernel) # Kernel,
                               RefusedOf(Kernel, nodes, TRUE, busy))
        /\ UNCHANGED << availableHosts, nodes, saved_bridge_nf, issued,
                        downed >>

\* Mutant of set_state: the state is set on every interface that is there.
set_state_everywhere(k, name, state) ==
    IF k.interfaces[name].present
    THEN Ok([k EXCEPT !.interfaces =
                [i \in IfNames |->
                    IF @[i].present /\ i # bridgeName
                    THEN [@[i] EXCEPT !.state = state] ELSE @[i]]])
    ELSE Raise(k)

\* Mutant of set_state: the state is noted by the harness, the interface is
\* left as it was.
set_state_mark_only(k, name, state) ==
    IF k.interfaces[name].present THEN Ok(k) ELSE Raise(k)

\* ndb.interfaces[self.vethPeer].set(state=...).commit(): KeyError when the
\* peer is not there.
set_state(k, name, state) ==
    IF k.interfaces[name].present
    THEN Ok([k EXCEPT !.interfaces[name].state = state])
    ELSE Raise(k)

\* VirtualNode.ifdown() on the i-th node handed out.
ifdown(i) ==
    LET r == set_state(Kernel, vethPeer(nodes[i].namespace), "down")
    IN  /\ interfaces' = r.kernel.interfaces
        /\ downed' = IF r.raised THEN downed
                     ELSE downed \cup {nodes[i].namespace}
        /\ lastOp' = Op("ifdown", nodes[i].namespace, r.raised,
                     r.kernel # Kernel)
        /\ UNCHANGED << availableHosts, nodes, netns, bridge_nf,
                        saved_bridge_nf, issued >>

\* VirtualNode.ifup() on the i-th node handed out.
ifup(i) ==
    LET r == set_state(Kernel, vethPeer(nodes[i].namespace), "up")
    IN  /\ interfaces' = r.kernel.interfaces
        /\ downed' = IF r.raised THEN downed
                     ELSE downed \ {nodes[i].namespace}
        /\ lastOp' = Op("ifup", nodes[i].namespace, r.raised, r.kernel # Kernel)
        /\ UNCHANGED << availableHosts, nodes, netns, bridge_nf,
                        saved_bridge_nf, issued >>

\* Somebody else removes a namespace or an interface of this VirtualLAN.
out_of_band_netns(name) ==
    /\ name \in netns
    /\ netns' = netns_remove(Kernel, name).kernel.netns
    /\ interfaces' = netns_remove(Kernel, name).kernel.interfaces
    /\ lastOp' = Op("out_of_band", name, FALSE, TRUE)
    /\ UNCHANGED << availableHosts, nodes, bridge_nf, saved_bridge_nf,
                    issued, downed >>

out_of_band_interface(name) ==
    /\ interfaces[name].present
    /\ interfaces' = interface_remove(Kernel, name).kernel.interfaces
    /\ lastOp' = Op("out_of_band", name, FALSE, TRUE)
    /\ UNCHANGED << availableHosts, nodes, netns, bridge_nf,
                    saved_bridge_nf, issued, downed >>

NetNext ==
    \/ \E fail \in FailPoints : create_node(fail) /\ UNCHANGED notNet
    \/ \E i \in 1..Len(nodes) : node_destroy(i) /\ UNCHANGED notNet
    \/ \E busy \in BusyKinds : lan_destroy(busy) /\ UNCHANGED notNet
    \/ \E i \in 1..Len(nodes) : ifdown(i) /\ UNCHANGED notNet
    \/ \E i \in 1..Len(nodes) : ifup(i) /\ UNCHANGED notNet
    \/ \E name \in Namespaces : out_of_band_netns(name) /\ UNCHANGED notNet
    \/ \E name \in IfNames : out_of_band_interface(name) /\ UNCHANGED notNet


\* ------------------------------------------------ network: properties

NodeIndexes == 1..Len(nodes)

\* A namespace is connected to the bridge: it exists, its veth pair exists
\* with the address of the node, the peer is a port of the bridge and up.
Connected(node) ==
    /\ node.namespace \in netns
    /\ interfaces[vethPeer(node.namespace)].present
    /\ interfaces[vethPeer(node.namespace)].address = node.address
    /\ interfaces[vethPeer(node.namespace)].master
    /\ interfaces[vethPeer(node.namespace)].state = "up"
    /\ interfaces[bridgeName].present
    /\ interfaces[bridgeName].state = "up"

\* A query sent from node `src` to the address of node `dst` is delivered.
Delivered(src, dst) == Connected(src) /\ Connected(dst)

\* C1: the bridge address and the addresses of all nodes are pairwise
\* distinct hosts of the subnet, no two nodes share a namespace name, and no
\* address is handed out twice, whatever create_node calls failed and whatever
\* nodes were destroyed.
C1_AddressesUnique ==
    /\ \A i \in NodeIndexes :
           /\ nodes[i].address \in Hosts
           /\ nodes[i].address # bridgeAddress
    /\ \A i, j \in NodeIndexes :
           i # j => /\ nodes[i].address # nodes[j].address
                    /\ nodes[i].namespace # nodes[j].namespace
    /\ \A h \in Hosts : issued[h] <= 1

\* C1 witness: two nodes exist, a create_node call failed after taking its
\* address, and the namespace of a node has been destroyed.
C1_Witness ==
    /\ Len(nodes) >= 2
    /\ availableHosts > Len(nodes) + 2
    /\ \E i \in NodeIndexes : nodes[i].namespace \notin netns

\* C7: while a node is down (ifdown returned, no ifup since) no query from
\* another node to its address is delivered; when ifup has returned, a query
\* from every other connected node is delivered again.
C7_PartitionAndHeal ==
    /\ \A i, j \in NodeIndexes :
           (i # j /\ nodes[i].namespace \in downed)
               => ~Delivered(nodes[j], nodes[i])
    /\ (lastOp.op = "ifup" /\ ~lastOp.raised) =>
           \A i, j \in NodeIndexes :
               (i # j /\ nodes[i].namespace = lastOp.node
                      /\ Connected(nodes[j]))
                   => Delivered(nodes[j], nodes[i])

\* C7 witness: ifup has just brought a downed node back, and another node
\* reaches it.
C7_Witness ==
    /\ lastOp.op = "ifup" /\ ~lastOp.raised /\ lastOp.changed
    /\ \E i, j \in NodeIndexes :
           /\ i # j
           /\ nodes[i].namespace = lastOp.node
           /\ Delivered(nodes[j], nodes[i])

\* C8: from every state, also one where the namespace, the veth peer or the
\* bridge was removed by somebody else, VirtualNode.destroy and
\* VirtualLAN.destroy do not raise, and a second destroy leaves the kernel
\* state the first one left.
C8_DestroyIdempotent ==
    /\ lastOp.op \in {"node_destroy", "lan_destroy"} => ~lastOp.raised
    /\ \A i \in NodeIndexes :
           LET once == VirtualNode_destroy(Kernel, nodes[i])
           IN  /\ ~once.raised
               /\ VirtualNode_destroy(once.kernel, nodes[i]) = once
    /\ LET once == VirtualLAN_destroy(Kernel, nodes)
       IN  /\ ~once.raised
           /\ VirtualLAN_destroy(once.kernel, nodes) = once

\* C8 witness: VirtualLAN.destroy returned without finding anything left to
\* remove, although it owns nodes.
C8_Witness ==
    /\ lastOp.op = "lan_destroy"
    /\ ~lastOp.changed
    /\ Len(nodes) >= 1

\* C9 (as claimed): after VirtualLAN.destroy returns, no namespace, no veth
\* peer and no bridge of the VirtualLAN exists, also when a create_node call
\* failed part-way.
C9_NothingLeftAfterDestroy ==
    (lastOp.op = "lan_destroy" /\ ~lastOp.raised) =>
        /\ netns = {}
        /\ \A name \in IfNames : ~interfaces[name].present

\* The step is a call of VirtualLAN.destroy().
IsLanDestroy == lastOp' # lastOp /\ lastOp'.op = "lan_destroy"

\* C23: the toggle is zero from the construction of the VirtualLAN until its
\* destroy, a destroy leaves in it the value it had before the construction,
\* nothing else writes it, and when there is no toggle file neither the
\* construction nor destroy makes one.
C23_ToggleRestored ==
    /\ (saved_bridge_nf # NoFile => bridge_nf = 0)
    /\ [][bridge_nf' # bridge_nf => IsLanDestroy]_vars
    /\ [][IsLanDestroy => bridge_nf' = saved_bridge_nf]_vars
    /\ [][saved_bridge_nf' = saved_bridge_nf]_vars
    /\ [](saved_bridge_nf = NoFile => bridge_nf = NoFile)

\* C23 witness: the host had the toggle at one, and destroy has put it back
\* after the kernel refused to delete the bridge.
C23_Witness ==
    /\ lastOp.op = "lan_destroy"
    /\ lastOp.refused = {"bridge"}
    /\ saved_bridge_nf = 1
    /\ bridge_nf = 1

\* C24 (as claimed): a deletion the kernel refuses for an object that is
\* there (permission denied, device busy) is not suppressed: the destroy call
\* during which it happened raises.
C24_OnlyAbsenceSuppressed ==
    (lastOp.op = "lan_destroy" /\ lastOp.refused # {}) => lastOp.raised

\* The bridge exists, and every node of the node list has its veth peer
\* there, a port of the bridge, and up unless ifdown was applied to it.
BridgeAndPeers ==
    /\ interfaces[bridgeName].present
    /\ \A i \in NodeIndexes :
           LET peer == interfaces[vethPeer(nodes[i].namespace)]
           IN  /\ peer.present
               /\ peer.master
               /\ nodes[i].namespace \notin downed => peer.state = "up"

\* The step is a call of the VirtualLAN's own interface other than destroy.
IsLanCall ==
    /\ lastOp' # lastOp
    /\ lastOp'.op \in {"create_node", "ifdown", "ifup"}

\* C25 (as claimed): the calls made on a live VirtualLAN keep the bridge and
\* the peers of all its nodes in place, and after destroy the bridge does not
\* exist.
C25_BridgeWhileLive ==
    /\ [][(BridgeAndPeers /\ IsLanCall) => BridgeAndPeers']_vars
    /\ [](lastOp.op = "lan_destroy" => ~interfaces[bridgeName].present)

\* The step is a call of VirtualLAN.create_node().
IsCreateNode == lastOp' # lastOp /\ lastOp'.op = "create_node"

\* C39: when every host address of the subnet has been handed out,
\* create_node raises, makes no namespace and no interface, hands out no
\* address again and leaves the node list as it was.
C39_ExhaustedRaises ==
    [][(IsCreateNode /\ availableHosts \notin Hosts) =>
          /\ lastOp'.raised
          /\ ~lastOp'.changed
          /\ UNCHANGED << nodes, netns, interfaces, issued >>]_vars

\* C39 witness: create_node has raised, the iterator at its end, every host
\* handed out once and one node for every host but the bridge's.
C39_Witness ==
    /\ lastOp = Op("create_node", NoNode, TRUE, FALSE)
    /\ availableHosts \notin Hosts
    /\ \A h \in Hosts : issued[h] = 1

\* ------------------------------------------------------- command line

None == << >>
program == "pg_autoctl"
datadir == "DATADIR"

\* The words an argument list is made of.
Words == {"set", "--", "--pgdata", "5"}

\* Every argument list of at most MaxArgs words.
ArgLists == UNION {[1..n -> Words] : n \in 0..MaxArgs}

\* The argv lists given to PGAutoCtl(pgnode, argv): none, or two words.
Argvs == {given \in ArgLists : Len(given) \in {0, 2}}

\* pgdata = ["--pgdata", self.datadir]
pgdata == << "--pgdata", datadir >>

\* for arg in args: if arg == "--": self.command += pgdata
\*                  self.command += [arg]
RECURSIVE AddArgs(_, _)
AddArgs(cmd, args) ==
    IF args = << >> THEN cmd
    ELSE AddArgs(IF Head(args) = "--"
                 THEN cmd \o pgdata \o << Head(args) >>
                 ELSE cmd \o << Head(args) >>,
                 Tail(args))

Contains(seq, word) == \E i \in 1..Len(seq) : seq[i] = word

\* Mutant of set_command: --pgdata is appended whether or not it is there.
set_command_always_append(cmd, args) ==
    IF cmd # None THEN cmd
    ELSE AddArgs(<< program >>, args) \o pgdata

\* PGAutoCtl.set_command(*args): the command line of the supervisor after
\* the call, `cmd` being self.command before it.
set_command(cmd, args) ==
    IF cmd # None THEN cmd
    ELSE LET c == AddArgs(<< program >>, args)
         IN  IF ~Contains(c, "--pgdata") THEN c \o pgdata ELSE c

\* No PGAutoCtl of the scenario has been given arguments yet.
CmdIdle ==
    /\ command = None
    /\ lastArgs = << >>
    /\ built = FALSE
    /\ argv = << >>
    /\ spawned = FALSE

\* PGAutoCtl(pgnode, argv): if argv: self.command = [self.program] + argv
PGAutoCtl_init(given) ==
    /\ command' = IF given # << >> THEN << program >> \o given ELSE None
    /\ lastArgs' = << >>
    /\ built' = FALSE
    /\ argv' = given
    /\ spawned' = FALSE

\* The set_command(*args) call that execute makes, and the spawn of the
\* command line it returned.
do_set_command(args) ==
    /\ command' = set_command(command, args)
    /\ lastArgs' = args
    /\ built' = (command = None)
    /\ spawned' = TRUE
    /\ UNCHANGED argv

\* The options run appends to the command line: none, or a name.
RunOptions == {<< >>, << "--name", "node" >>}

\* The command line PGAutoCtl.run(level, name, host, port) spawns: the one
\* it has, or "run --pgdata <datadir> <level>", and the options after it.
run_command(cmd, level, options) ==
    (IF cmd = None THEN << program, "run" >> \o pgdata \o << level >>
     ELSE cmd) \o options

\* PGAutoCtl.run() on a supervisor that has spawned nothing yet.
PGAutoCtl_run(options) ==
    /\ ~spawned
    /\ command' = run_command(command, "-vv", options)
    /\ spawned' = TRUE
    /\ UNCHANGED << lastArgs, built, argv >>

\* The arguments of a set_command call: any list on a PGAutoCtl that has no
\* command yet, a list of at most one word on one that has.
ArgsFor(cmd) ==
    IF cmd = None THEN ArgLists ELSE {args \in ArgLists : Len(args) <= 1}

CmdNext ==
    \/ \E given \in Argvs : PGAutoCtl_init(given) /\ UNCHANGED notCmd
    \/ \E options \in RunOptions :
          PGAutoCtl_run(options) /\ UNCHANGED notCmd
    \/ \E args \in ArgsFor(command) :
          do_set_command(args) /\ UNCHANGED notCmd


Count(seq, word) == Cardinality({i \in 1..Len(seq) : seq[i] = word})

\* The position of the first `word` of seq.
IndexOf(seq, word) == CHOOSE i \in 1..Len(seq) :
    seq[i] = word /\ \A j \in 1..(i - 1) : seq[j] # word

\* C10: when set_command builds the command line from arguments with one "--"
\* and no "--pgdata", the command is the program, the arguments before the
\* separator, "--pgdata <datadir>", the separator and the arguments after it:
\* "--pgdata" appears once and is not appended at the end.
C10_PgdataAtSeparator ==
    (built /\ Count(lastArgs, "--") = 1 /\ ~Contains(lastArgs, "--pgdata")) =>
        LET i == IndexOf(lastArgs, "--")
        IN  /\ command = << program >> \o SubSeq(lastArgs, 1, i - 1)
                           \o << "--pgdata", datadir >>
                           \o SubSeq(lastArgs, i, Len(lastArgs))
            /\ Count(command, "--pgdata") = 1

\* C10 witness: the arguments "set -- 5" gave "set --pgdata <datadir> -- 5".
C10_Witness ==
    /\ built
    /\ lastArgs = << "set", "--", "5" >>
    /\ command = << program, "set", "--pgdata", datadir, "--", "5" >>

\* "--pgdata" is in seq, followed by the data directory of the node.
HasPgdata(seq) ==
    \E i \in 1..(Len(seq) - 1) : seq[i] = "--pgdata" /\ seq[i + 1] = datadir

\* C11: every command line a PGAutoCtl spawns has "--pgdata <datadir>",
\* appended by the supervisor whenever the caller did not supply "--pgdata",
\* be the command built from the arguments of execute, given as argv at
\* construction, or built by run.  The code takes a non-empty argv as the
\* whole command line: set_command returns it and run spawns it as it is.
C11_PgdataAlways ==
    (spawned /\ ~Contains(argv, "--pgdata")
             /\ ~Contains(lastArgs, "--pgdata")) => HasPgdata(command)

\* ------------------------------------------------ pg_autoctl processes

\* Time is counted in tenths of a second, the default polling interval.
POLLING_INTERVAL == 1

\* One second: the slice of Cluster.sleep and Cluster.communicate.
Second == 10 * POLLING_INTERVAL

COMMAND_TIMEOUT == 60 * Second

\* PGNode.pg_autoctl and the process behind it:
\*   "absent"   pg_autoctl is None
\*   "idle"     a PGAutoCtl whose run_proc is None
\*   "running"  run_proc is a live process
\*   "exited"   run_proc is a process that exited and was not collected yet
\*   "gone"     run_proc is a process whose pid no longer exists
ProcStates == {"absent", "idle", "running", "exited", "gone"}

ProcIdle ==
    /\ monitor = NoNode
    /\ datanodes = << >>
    /\ procs = [n \in Namespaces |-> "absent"]
    /\ configs = {}
    /\ signalled = {}

\* No Cluster.destroy call is under way.
DstIdle ==
    /\ dpc = "idle"
    /\ todo = << >>
    /\ snap = [datanodes |-> << >>, monitor |-> NoNode]
    /\ trace = << >>

\* self.last_returncode = None
NoCode == -1000

\* Every way a process ends: a return code (negative when a signal killed
\* it) or not within the timeout of the call.
ReturnCodes == {-11, 0, 1, 2}
Ends == {[timedout |-> FALSE, returncode |-> c] : c \in ReturnCodes}
        \cup {[timedout |-> TRUE, returncode |-> NoCode]}

\* What a call gave back: the error raised ("none": it returned) and the
\* value returned.
Returned(value) == [error |-> "none", value |-> value]
Raised(error) == [error |-> error, value |-> "none"]

\* No one-shot command has been run.
ExecIdle ==
    /\ xop = "none"
    /\ xend = [timedout |-> FALSE, returncode |-> 0]
    /\ xres = Returned("none")
    /\ last_returncode = NoCode
    /\ xrounds = 0

\* No fail() was called, and no Postgres runs.
NoCall == [node |-> NoNode, raised |-> FALSE, steps |-> << >>, autoctl |-> FALSE, pg |-> "down"]
FailIdle ==
    /\ postgres = [n \in Namespaces |-> "down"]
    /\ fcall = NoCall

\* No command is being run through VirtualNode.run.
RunIdle ==
    /\ who = "none"
    /\ cpc = "idle"
    /\ conmonitor = FALSE
    /\ ctimeout = 0
    /\ cattempts = 0
    /\ cproc = "none"
    /\ creturncode = NoCode
    /\ creleases = 0
    /\ clingers = FALSE
    /\ cleaked = FALSE
    /\ ctogether = FALSE
    /\ cslices = 0
    /\ cflushes = 0
    /\ cwaited = 0
    /\ cdry = 0
    /\ cres = Returned("none")

\* The background processes a node spawns, in order.
Processes == 1..MaxRuns

\* The result of a call on the PGAutoCtl: its shape ("triple": (out, err,
\* ret), "pair": (out, err), or the exception raised), the process whose
\* output it carries (0: none, or the empty strings) and the return code.
Result(shape, output, ret) == [shape |-> shape, out |-> output, ret |-> ret]
NoResult == Result("none", 0, NoCode)

\* A PGNode whose pg_autoctl is a PGAutoCtl that has spawned nothing.
SupIdle ==
    /\ held = 0
    /\ pstate = "none"
    /\ pcode = NoCode
    /\ out = 0
    /\ spawns = 0
    /\ releases = [p \in Processes |-> 0]
    /\ dropped = {}
    /\ strays = {}
    /\ orphans = {}
    /\ sigs = {}
    /\ sop = "none"
    /\ sres = NoResult
    /\ collected = NoResult
    /\ stick = FALSE

Range(seq) == {seq[i] : i \in 1..Len(seq)}

\* Cluster.nodes(): the data nodes, then the monitor if there is one.
datanodes_only(dn, mon) == dn

cluster_nodes(dn, mon) == IF mon = NoNode THEN dn ELSE Append(dn, mon)

\* PGNode.running(): self.pg_autoctl and self.pg_autoctl.run_proc
running(p) == p \in {"running", "exited", "gone"}

\* PGNode.flush_output(): consume_output collects a process that has ended
\* and forgets it; a live one times out of the read and stays.
flush_output(p) == IF p \in {"exited", "gone"} THEN "idle" ELSE p

\* Cluster.flush_output() over the nodes cn.
Cluster_flush_output(ps, cn) ==
    [n \in Namespaces |-> IF n \in Range(cn) THEN flush_output(ps[n])
                           ELSE ps[n]]

\* How a live pg_autoctl takes SIGTERM: it exits within a slice of the wait
\* of Cluster.communicate, or it is still there when the wait is over.  (One
\* that ends before the first flush is one that had ended: proc_exit.)
Reactions == {"slow", "hang"}

\* One reaction for every pg_autoctl that is live in ps; the entry of another
\* node is never looked at.
Reacts(ps) ==
    LET live == {n \in Namespaces : ps[n] = "running"}
    IN  {[n \in Namespaces |-> IF n \in live THEN rr[n] ELSE "slow"] :
            rr \in [live -> Reactions]}

\* PGAutoCtl.stop() found a process that has ended and still takes the
\* signal: the flush of Cluster.communicate collects it when its node is in
\* cn, and PGAutoCtl.communicate then returns (out, err), a pair.
stop_ended(ps, sig, n, cn) ==
    LET flushed == Cluster_flush_output(ps, cn)
    IN  IF n \in Range(cn)
        THEN [procs |-> flushed, signalled |-> sig \cup {n},
              result |-> "pair", duration |-> 0]
        ELSE [procs |-> [flushed EXCEPT ![n] = "idle"],
              signalled |-> sig \cup {n},
              result |-> "triple", duration |-> 0]

\* PGAutoCtl.stop() of node n, the nodes of the cluster being cn: the
\* processes after it, the nodes signalled so far, what it returned ("triple":
\* (out, err, ret), "pair": (out, err), "timeout": TimeoutExpired raised) and
\* the time it took.
PGAutoCtl_stop(ps, sig, n, cn, reaction) ==
    CASE ps[n] = "running" /\ reaction = "slow" ->
            [procs |-> [Cluster_flush_output(ps, cn) EXCEPT ![n] = "idle"],
             signalled |-> sig \cup {n},
             result |-> "triple", duration |-> Second]
      [] ps[n] = "running" /\ reaction = "hang" ->
            [procs |-> Cluster_flush_output(ps, cn),
             signalled |-> sig \cup {n},
             result |-> "timeout", duration |-> COMMAND_TIMEOUT]
      [] ps[n] = "exited" -> stop_ended(ps, sig, n, cn)
      [] ps[n] = "gone" ->
            \* os.kill raises ProcessLookupError: run_proc = None
            [procs |-> [ps EXCEPT ![n] = "idle"], signalled |-> sig,
             result |-> "triple", duration |-> 0]
      [] OTHER ->
            [procs |-> ps, signalled |-> sig,
             result |-> "triple", duration |-> 0]

\* PGNode.stop_pg_autoctl(): nothing (None) without a pg_autoctl.
stop_pg_autoctl(ps, sig, n, cn, reaction) ==
    IF ps[n] = "absent"
    THEN [procs |-> ps, signalled |-> sig, result |-> "none", duration |-> 0]
    ELSE PGAutoCtl_stop(ps, sig, n, cn, reaction)

\* The result of stop_pg_autoctl unpacks into out, err, ret.
Unpacks(result) == result = "triple"

\* for node in self.cluster.nodes(): logs += node.logs()
\* st is [procs, signalled, raised, duration]; node.logs() stops the
\* pg_autoctl of a node that is running and the loop ends where a call raises.
RECURSIVE LogsLoop(_, _, _, _)
LogsLoop(st, rest, cn, react) ==
    IF rest = << >> \/ st.raised THEN st
    ELSE LET n == Head(rest)
             r == stop_pg_autoctl(st.procs, st.signalled, n, cn, react[n])
         IN  IF running(st.procs[n])
             THEN LogsLoop([procs |-> r.procs, signalled |-> r.signalled,
                            raised |-> ~Unpacks(r.result),
                            duration |-> st.duration + r.duration,
                            rounds |-> st.rounds],
                           Tail(rest), cn, react)
             ELSE LogsLoop(st, Tail(rest), cn, react)

\* How the monitor answers get_events once "pgsetup ready" completes: the
\* events, Postgres not ready (nothing is asked), or the query raising.
Answers == {"events", "notready", "sqlerror"}

\* PGNode.print_debug_logs(), the "pgsetup ready" command timing out k times
\* in a row before it completes: each timeout runs print_debug_logs again
\* from PGAutoCtl.execute, and pg_is_running swallows whatever that raises.
RECURSIVE print_debug_logs(_, _, _, _, _, _, _)
print_debug_logs(ps, sig, dn, mon, react, k, answer) ==
    LET cn == cluster_nodes(dn, mon)
        start == [procs |-> ps, signalled |-> sig, raised |-> FALSE,
                  duration |-> 0, rounds |-> 1]
        flushed == [start EXCEPT !.procs = Cluster_flush_output(ps, cn)]
        inner == print_debug_logs(flushed.procs, sig, dn, mon, react,
                                  k - 1, answer)
    IN  IF mon = NoNode THEN LogsLoop(start, cn, cn, react)
        ELSE IF k > 0
        THEN LogsLoop([inner EXCEPT !.raised = FALSE,
                                    !.duration = @ + COMMAND_TIMEOUT,
                                    !.rounds = @ + 1],
                      cn, cn, react)
        ELSE IF answer = "sqlerror" THEN [flushed EXCEPT !.raised = TRUE]
        ELSE LogsLoop(flushed, cn, cn, react)

\* ------------------------------------------------------------- waits

\* The states a node goes through, as far as the waits tell them apart.
States == {"primary", "secondary"}

\* prev_state = None
NoState == "None"

\* NodeState(reportedstate, goalstate), the row get_state returns.
NodeStates == [reported : States, assigned : States]

\* get_state found no row for the node, or the query raised.
NotFound == [reported |-> NoState, assigned |-> NoState]

\* The timeouts of the calls, in polling intervals.
Timeouts == 0..MaxTimeout

SleepTimes == {POLLING_INTERVAL, 2 * POLLING_INTERVAL}

\* The nested timeouts of "pgsetup ready" inside one print_debug_logs.
Nestings == 0..MaxNested

WaitIdle ==
    /\ wpc = "idle"
    /\ wkind = "state"
    /\ target_state = NoState
    /\ sleep_time = POLLING_INTERVAL
    /\ wait_until = 0
    /\ now = 0
    /\ prev_state = NoState
    /\ current = NotFound
    /\ polls = 0
    /\ missed = FALSE
    /\ drained = {}
    /\ lines = 0
    /\ wlog = << >>

\* Mutant of StateOf: the assigned state, whichever wait it is.
AssignedOf(kind, res) == res.assigned

\* Mutant of StateOf: the reported state, whichever wait it is.
ReportedOf(kind, res) == res.reported

\* What the wait compares with its target: current_state for
\* wait_until_state, assigned_state for wait_until_assigned_state.
StateOf(kind, res) ==
    IF kind = "state" THEN res.reported ELSE res.assigned

\* Mutant of LogsLine: a line for every poll.
logs_every_poll(prev, state) == TRUE

\* if current_state != prev_state: print(...)
LogsLine(prev, state) == state # prev

\* while wait_until > dt.datetime.now()
LoopTest(deadline, clock) == IF deadline > clock THEN "sleep" ELSE "timeout"

\* Cluster.sleep(secs): a flush before every full second and before the rest.
Cluster_sleep(ps, cn, secs) == Cluster_flush_output(ps, cn)

\* The nodes whose pipes Cluster.flush_output() reads: those of cn that hold
\* the handle of a pg_autoctl.
flushed_nodes(ps, cn) == {n \in Range(cn) : running(ps[n])}

\* node.wait_until_state / node.wait_until_assigned_state is called on a
\* data node: prev_state = None, the deadline is set, the loop is tested.
wait_call(kind, target, timeout, st) ==
    /\ wpc = "idle"
    /\ datanodes # << >>
    /\ wkind' = kind
    /\ target_state' = target
    /\ sleep_time' = st
    /\ wait_until' = timeout
    /\ now' = 0
    /\ prev_state' = NoState
    /\ current' = NotFound
    /\ polls' = 0
    /\ missed' = FALSE
    /\ drained' = {}
    /\ lines' = 0
    /\ wlog' = << >>
    /\ signalled' = {}
    /\ wpc' = LoopTest(timeout, 0)
    /\ UNCHANGED << monitor, datanodes, configs, procs >>

\* self.sleep(sleep_time)
wait_sleep ==
    /\ wpc = "sleep"
    /\ procs' = Cluster_sleep(procs, cluster_nodes(datanodes, monitor),
                              sleep_time)
    /\ drained' = flushed_nodes(procs, cluster_nodes(datanodes, monitor))
    /\ now' = now + sleep_time
    /\ wlog' = Append(wlog, "sleep")
    /\ wpc' = "query"
    /\ UNCHANGED << monitor, datanodes, configs, signalled, wkind, target_state,
                    sleep_time, wait_until, prev_state, current, polls,
                    missed, lines >>

\* Mutant of wait_query: a poll that finds no row is passed over, and the
\* loop goes on.
wait_query_goes_on(res) ==
    /\ wpc = "query"
    /\ wlog' = Append(wlog, "query")
    /\ IF res = NotFound
       THEN /\ wpc' = "compare"
            /\ UNCHANGED << current, polls, missed >>
       ELSE /\ wpc' = "compare"
            /\ current' = res
            /\ polls' = polls + 1
            /\ missed' = (missed \/ (polls > 0
                                     /\ current.reported = target_state))
    /\ UNCHANGED << procVars, wkind, target_state, sleep_time, wait_until,
                    now, prev_state, drained, lines >>

\* current_state, assigned_state = self.get_state()
wait_query(res) ==
    /\ wpc = "query"
    /\ wlog' = Append(wlog, "query")
    /\ IF res = NotFound
       THEN /\ wpc' = "error"
            /\ UNCHANGED << current, polls, missed >>
       ELSE /\ wpc' = "compare"
            /\ current' = res
            /\ polls' = polls + 1
            /\ missed' = (missed \/ (polls > 0
                                     /\ current.reported = target_state))
    /\ UNCHANGED << procVars, wkind, target_state, sleep_time, wait_until,
                    now, prev_state, drained, lines >>

\* if current_state == target_state: return True
\* prev_state = current_state, and the loop is tested again
wait_compare ==
    /\ wpc = "compare"
    /\ wlog' = Append(wlog, "compare")
    /\ IF StateOf(wkind, current) = target_state
       THEN /\ wpc' = "returned"
            /\ UNCHANGED prev_state
       ELSE /\ wpc' = LoopTest(wait_until, now)
            /\ prev_state' = StateOf(wkind, current)
    /\ drained' = {}
    /\ lines' = IF LogsLine(prev_state, StateOf(wkind, current))
                THEN lines + 1 ELSE lines
    /\ UNCHANGED << procVars, wkind, target_state, sleep_time, wait_until,
                    now, current, polls, missed >>

\* The loop is over: self.print_debug_logs(), then raise Exception(error_msg)
\* unless print_debug_logs raised first.
wait_timeout(react, k, answer) ==
    LET r == print_debug_logs(procs, signalled, datanodes, monitor, react,
                              k, answer)
    IN  /\ wpc = "timeout"
        /\ procs' = r.procs
        /\ signalled' = r.signalled
        /\ now' = now + r.duration
        /\ wpc' = IF r.raised THEN "error" ELSE "raised"
        /\ UNCHANGED << monitor, datanodes, configs, wkind, target_state, sleep_time,
                        wait_until, prev_state, current, polls, missed, wlog,
                        drained, lines >>

\* The call is over and the test goes on.
wait_over ==
    /\ wpc \in {"returned", "raised", "error"}
    /\ wpc' = "idle"
    /\ wkind' = "state"
    /\ target_state' = NoState
    /\ sleep_time' = POLLING_INTERVAL
    /\ wait_until' = 0
    /\ now' = 0
    /\ prev_state' = NoState
    /\ current' = NotFound
    /\ polls' = 0
    /\ missed' = FALSE
    /\ drained' = {}
    /\ lines' = 0
    /\ wlog' = << >>
    /\ UNCHANGED procVars

\* A pg_autoctl process ends by itself, at any time.
proc_exit(n, how) ==
    /\ procs[n] = "running"
    /\ procs' = [procs EXCEPT ![n] = how]
    /\ UNCHANGED << monitor, datanodes, configs, signalled, waitVars >>

\* PGNode.run() between two calls: the node runs pg_autoctl again.
node_run(n) ==
    /\ wpc = "idle"
    /\ dpc = "idle"
    /\ procs[n] = "idle"
    /\ procs' = [procs EXCEPT ![n] = "running"]
    /\ UNCHANGED << monitor, datanodes, configs, signalled, waitVars >>

WaitNext ==
    \/ \E kind \in {"state", "assigned"}, target \in States,
          timeout \in Timeouts, st \in SleepTimes :
          wait_call(kind, target, timeout, st) /\ UNCHANGED notWait
    \/ wait_sleep /\ UNCHANGED notWait
    \/ \E res \in NodeStates \cup {NotFound} :
          wait_query(res) /\ UNCHANGED notWait
    \/ wait_compare /\ UNCHANGED notWait
    \/ \E react \in Reacts(procs), k \in Nestings,
          answer \in Answers :
          wait_timeout(react, k, answer) /\ UNCHANGED notWait
    \/ wait_over /\ UNCHANGED notWait
    \/ \E n \in Namespaces, how \in {"exited", "gone"} :
          proc_exit(n, how) /\ UNCHANGED notWait
    \/ \E n \in Namespaces : node_run(n) /\ UNCHANGED notWait

\* A cluster of a monitor and ClusterSize - 1 data nodes, created in that
\* order on a fresh VirtualLAN, each pg_autoctl running or not.
ClusterUp ==
    /\ monitor = 0
    /\ datanodes = [i \in 1..(ClusterSize - 1) |-> i]
    /\ procs \in [Namespaces -> {"absent", "idle", "running"}]
    /\ \A n \in Namespaces : procs[n] = "absent" <=> n >= ClusterSize
    /\ configs = 0..(ClusterSize - 1)
    /\ signalled = {}

InitWait == NetIs(LanAfter(ClusterSize), NoFile) /\ CmdIdle /\ ClusterUp
            /\ WaitIdle /\ DstIdle /\ ExecIdle /\ SupIdle /\ FailIdle /\ RunIdle

SpecWait == InitWait /\ [][WaitNext]_vars

\* The loop body, step by step.
LoopBody == << "sleep", "query", "compare" >>

\* C4: when the reported state never equals the target, wait_until_state
\* ends by raising its timeout error at most one polling interval
\* (sleep_time) after the deadline.  The code runs print_debug_logs before it
\* raises, and that waits up to COMMAND_TIMEOUT for every pg_autoctl it stops
\* and for every "pgsetup ready" that does not answer.
C4_RaisesWithinInterval ==
    (wkind = "state" /\ wpc = "raised") => now <= wait_until + sleep_time

\* C5: wait_until_state returns True at the first poll whose reported state
\* equals the target and asks for no state after it; in every iteration the
\* keep-alive sleep comes before the state query and the query before the
\* comparison with the target.
C5_ReturnsAtFirstMatch ==
    wkind = "state" =>
        /\ ~missed
        /\ wpc = "returned" =>
              /\ polls > 0
              /\ current.reported = target_state
        /\ (wpc \in {"sleep", "timeout", "raised"} /\ polls > 0) =>
              current.reported # target_state
        /\ \A i \in 1..Len(wlog) : wlog[i] = LoopBody[((i - 1) % 3) + 1]
        /\ wpc = "query" => (wlog # << >> /\ wlog[Len(wlog)] = "sleep")
        /\ wpc = "compare" => wlog[Len(wlog)] = "query"
        /\ wpc = "returned" => wlog[Len(wlog)] = "compare"

\* C5 witness: wait_until_state returned at its second poll, on the reported
\* state, the state assigned to the node being another one.
C5_Witness ==
    /\ wkind = "state"
    /\ wpc = "returned"
    /\ polls = 2
    /\ current.reported = target_state
    /\ current.assigned # target_state
    /\ wlog = LoopBody \o LoopBody

\* C6: when a wait ends with its timeout error, no pg_autoctl of the cluster
\* was signalled or stopped by the harness on the way to the error.  The
\* code stops every running pg_autoctl in print_debug_logs.
C6_TimeoutLeavesProcesses ==
    wpc = "raised" => signalled = {}

\* C20: while a wait polls, every iteration reads the pipes of every
\* running pg_autoctl of the cluster, the monitor's and the data nodes':
\* between the sleep of an iteration and its end, each of them has been
\* drained in this iteration.
C20_DrainedEachIteration ==
    wpc \in {"query", "compare"} =>
        \A n \in Range(datanodes) \cup ({monitor} \ {NoNode}) :
            procs[n] = "running" => n \in drained

\* An iteration has read the pipes of the monitor and of a data node.
C20_Witness ==
    /\ wpc = "compare" /\ polls > 1
    /\ monitor \in drained /\ procs[monitor] = "running"
    /\ \E n \in Range(datanodes) : n \in drained /\ procs[n] = "running"

\* A poll result with its two fields swapped.
Swap(res) == [reported |-> res.assigned, assigned |-> res.reported]

\* The field of the last poll result that the running wait is about.
Watched == IF wkind = "assigned" THEN current.assigned ELSE current.reported

C29_BooleanOutcome ==
    wkind = "state" => wpc # "raised"

\* C38: a poll that finds no row for the node ends the wait at once with the
\* error of get_state: the call polls no more, and by the time the error is
\* raised it has printed no debug logs, stopped and signalled no process and
\* waited no longer.
C38_NotFoundRaisesAtOnce ==
    /\ [][(wpc = "query" /\ wpc' # "query") =>
             \/ wpc' = "compare" /\ polls' = polls + 1
             \/ /\ wpc' = "error"
                /\ UNCHANGED << procs, signalled, now, polls, current >>]_vars
    /\ [][wpc = "error" => wpc' \in {"error", "idle"}]_vars

\* C38 witness: the second poll of a wait found no row and the call ended
\* with the error, well before its deadline and with every pg_autoctl of
\* the cluster running.
C38_Witness ==
    /\ wkind = "state" /\ wpc = "error"
    /\ wlog = LoopBody \o << "sleep", "query" >>
    /\ now < wait_until
    /\ signalled = {}
    /\ \A n \in Range(datanodes) \cup {monitor} : procs[n] = "running"

\* C40: during a wait a state line is printed by exactly the polls whose
\* state differs from the state of the poll before, the first poll being a
\* change: the lines printed are as many as the changes observed, not as
\* many as the polls.
C40_LinePerChange ==
    /\ [][(wpc = "compare" /\ wpc' # "compare") =>
             lines' = lines + (IF polls = 1 \/ Watched # prev_state
                               THEN 1 ELSE 0)]_vars
    /\ [][(wpc # "compare" /\ wpc' # "idle" /\ wpc # "idle")
             => lines' = lines]_vars
    /\ [](lines <= polls /\ (polls > 0 /\ wpc \notin {"compare"} => lines > 0))
    /\ []((polls = 1 /\ wpc = "compare") => prev_state = NoState)

\* C40 witness: three polls, the state of the second the same as that of the
\* first and the third reaching the target, and two lines.
C40_Witness ==
    /\ wkind = "state"
    /\ polls = 3 /\ wpc = "returned"
    /\ lines = 2

\* ------------------------------------------------------------ cluster

\* How a one-shot command ends: exit code 0, an exit code above 0
\* (CalledProcessError), or not within its timeout.
Outcomes == {"ok", "fail", "timeout"}

\* PGAutoCtl.execute() of a command in the namespace of node n: the flush of
\* Cluster.communicate, and on a timeout print_debug_logs before the raise.
\* `spawned` lists the namespaces commands were started in.
PGAutoCtl_execute(ps, sig, dn, mon, n, outcome, react, k, answer) ==
    LET flushed == Cluster_flush_output(ps, cluster_nodes(dn, mon))
        logs == {print_debug_logs(flushed, sig, dn, mon, react, k, answer)}
    IN  IF outcome = "timeout"
        THEN CHOOSE e \in
                {[procs |-> r.procs, signalled |-> r.signalled,
                  raised |-> TRUE,
                  spawned |-> IF mon = NoNode THEN << n >> ELSE << n, mon >>,
                  error |-> IF r.raised THEN "other" ELSE "Exception",
                  rounds |-> r.rounds] :
                    r \in logs} : TRUE
        ELSE [procs |-> flushed, signalled |-> sig,
              raised |-> (outcome = "fail"), spawned |-> << n >>,
              error |-> IF outcome = "fail" THEN "CalledProcessError"
                        ELSE "none",
              rounds |-> 0]

\* self.cluster.datanodes.remove(self), ValueError passed over
Remove(seq, n) == SelectSeq(seq, LAMBDA m : m # n)

\* DataNode.destroy(force, ignore_failure, timeout) of node n.
DataNode_destroy(ps, sig, dn, mon, cf, n, ignore_failure, outcome, react, k, answer) ==
    LET s == stop_pg_autoctl(ps, sig, n, cluster_nodes(dn, mon), react[n])
        e == PGAutoCtl_execute(s.procs, s.signalled, dn, mon, n, outcome,
                               react, k, answer)
    IN  IF s.result = "timeout"
        THEN \* self.stop_pg_autoctl() is outside of any try
             [procs |-> s.procs, signalled |-> s.signalled, datanodes |-> dn,
              configs |-> cf, raised |-> TRUE, spawned |-> << >>]
        ELSE IF e.raised /\ ~ignore_failure
        THEN [procs |-> e.procs, signalled |-> e.signalled, datanodes |-> dn,
              configs |-> cf, raised |-> TRUE, spawned |-> e.spawned]
        ELSE [procs |-> e.procs, signalled |-> e.signalled,
              datanodes |-> Remove(dn, n), configs |-> cf \ {n},
              raised |-> FALSE, spawned |-> e.spawned]

\* Mutant of MonitorNode_destroy: the cluster keeps its reference to the
\* monitor.
MonitorNode_destroy_keeps(ps, sig, dn, mon, cf, outcome, react, k, answer) ==
    LET s == stop_pg_autoctl(ps, sig, mon, cluster_nodes(dn, mon), react[mon])
        e == PGAutoCtl_execute(s.procs, s.signalled, dn, mon, mon, outcome,
                               react, k, answer)
    IN  IF s.result # "none" /\ ~Unpacks(s.result)
        THEN [procs |-> s.procs, signalled |-> s.signalled, monitor |-> mon,
              configs |-> cf, raised |-> TRUE, spawned |-> << >>]
        ELSE [procs |-> e.procs, signalled |-> e.signalled, monitor |-> mon,
              configs |-> IF e.raised THEN cf ELSE cf \ {mon},
              raised |-> e.raised, spawned |-> e.spawned]

\* MonitorNode.destroy(): out, err, ret = self.pg_autoctl.stop() needs three
\* values, and a drop command that fails is printed and raised again.
MonitorNode_destroy(ps, sig, dn, mon, cf, outcome, react, k, answer) ==
    LET s == stop_pg_autoctl(ps, sig, mon, cluster_nodes(dn, mon), react[mon])
        e == PGAutoCtl_execute(s.procs, s.signalled, dn, mon, mon, outcome,
                               react, k, answer)
    IN  IF s.result # "none" /\ ~Unpacks(s.result)
        THEN [procs |-> s.procs, signalled |-> s.signalled, monitor |-> mon,
              configs |-> cf, raised |-> TRUE, spawned |-> << >>]
        ELSE IF e.raised
        THEN [procs |-> e.procs, signalled |-> e.signalled, monitor |-> mon,
              configs |-> cf, raised |-> TRUE, spawned |-> e.spawned]
        ELSE [procs |-> e.procs, signalled |-> e.signalled,
              monitor |-> NoNode, configs |-> cf \ {mon},
              raised |-> FALSE, spawned |-> e.spawned]

\* Mutant of reversed: the list as it is.
not_reversed(seq) == seq

\* reversed(self.datanodes)
reversed(seq) == [i \in 1..Len(seq) |-> seq[Len(seq) + 1 - i]]

\* The events of the trace.
Teardown(n) == [ev |-> "destroy", node |-> n]
Spawn(n) == [ev |-> "spawn", node |-> n]
LanTeardown == [ev |-> "vlan", node |-> NoNode]
Spawns(seq) == [i \in 1..Len(seq) |-> Spawn(seq[i])]

has_monitor_never(mon) == FALSE

\* if self.monitor is not None
has_monitor(mon) == mon # NoNode

\* Cluster.create_monitor(): it raises when the cluster has a monitor;
\* otherwise the node of the VirtualLAN, the MonitorNode, and "pg_autoctl
\* create monitor" run to its end.
create_monitor ==
    /\ dpc = "idle" /\ wpc = "idle"
    /\ IF has_monitor(monitor)
       THEN /\ lastOp' = Op("create_monitor", NoNode, TRUE, FALSE)
            /\ UNCHANGED << availableHosts, nodes, netns, interfaces, issued, bridge_nf, saved_bridge_nf, downed >>
            /\ UNCHANGED << monitor, procs, configs >>
       ELSE /\ create_node("none")
            /\ IF lastOp'.raised
               THEN UNCHANGED << monitor, procs, configs >>
               ELSE /\ monitor' = lastOp'.node
                    /\ procs' = [procs EXCEPT ![lastOp'.node] = "idle"]
                    /\ configs' = configs \cup {lastOp'.node}
    /\ UNCHANGED << datanodes, signalled, dstVars >>

\* Cluster.create_datanode(): the node of the VirtualLAN and the DataNode,
\* appended to the data nodes.
create_datanode ==
    /\ dpc = "idle" /\ wpc = "idle"
    /\ create_node("none")
    /\ datanodes' = IF lastOp'.raised THEN datanodes
                    ELSE Append(datanodes, lastOp'.node)
    /\ UNCHANGED << monitor, procs, configs, signalled, dstVars >>

\* DataNode.create(run): "pg_autoctl create", waited for or left running.
datanode_create(n, run) ==
    /\ dpc = "idle" /\ wpc = "idle"
    /\ n \in Range(datanodes)
    /\ procs[n] \in {"absent", "idle"}
    /\ procs' = [procs EXCEPT ![n] = IF run THEN "running" ELSE "idle"]
    /\ configs' = configs \cup {n}
    /\ UNCHANGED << monitor, datanodes, signalled, dstVars, netVars >>

\* The inputs a teardown of node n depends on: print_debug_logs, with the
\* other nodes it stops, runs when the drop command times out.
NestingsFor(outcome) == IF outcome = "timeout" THEN Nestings ELSE {0}
AnswersFor(outcome) == IF outcome = "timeout" THEN Answers ELSE {"events"}
ReactsFor(ps, n, outcome) ==
    IF outcome = "timeout" THEN Reacts(ps)
    ELSE Reacts([m \in Namespaces |-> IF m = n THEN ps[m] ELSE "idle"])

\* node.destroy() called by a test on one data node: ignore_failure=False
datanode_destroy(n, outcome, react, k, answer) ==
    LET r == DataNode_destroy(procs, {}, datanodes, monitor, configs, n,
                              FALSE, outcome, react, k, answer)
    IN  /\ dpc = "idle" /\ wpc = "idle"
        /\ n \in Range(datanodes)
        /\ procs' = r.procs
        /\ datanodes' = r.datanodes
        /\ configs' = r.configs
        /\ UNCHANGED << monitor, signalled, dstVars, netVars >>

\* monitor.destroy() called by a test.
monitor_destroy(outcome, react, k, answer) ==
    LET r == MonitorNode_destroy(procs, {}, datanodes, monitor, configs,
                                 outcome, react, k, answer)
    IN  /\ dpc = "idle" /\ wpc = "idle"
        /\ monitor # NoNode
        /\ procs' = r.procs
        /\ monitor' = r.monitor
        /\ configs' = r.configs
        /\ lastOp' = Op("monitor_destroy", monitor, r.raised, ~r.raised)
        /\ UNCHANGED << availableHosts, nodes, netns, interfaces, issued,
                        bridge_nf, saved_bridge_nf, downed >>
        /\ UNCHANGED << datanodes, signalled, dstVars >>

\* Cluster.destroy() is called: the loop takes its copy of the data nodes.
cluster_destroy_call ==
    /\ dpc = "idle" /\ wpc = "idle"
    /\ dpc' = "datanodes"
    /\ todo' = reversed(datanodes)
    /\ snap' = [datanodes |-> datanodes, monitor |-> monitor]
    /\ trace' = << >>
    /\ signalled' = {}
    /\ UNCHANGED << monitor, datanodes, procs, configs, netVars >>

\* datanode.destroy(force=force, ignore_failure=True, timeout=3)
cluster_destroy_datanode(outcome, react, k, answer) ==
    LET n == Head(todo)
        r == DataNode_destroy(procs, signalled, datanodes, monitor, configs,
                              n, TRUE, outcome, react, k, answer)
    IN  /\ dpc = "datanodes"
        /\ todo # << >>
        /\ procs' = r.procs
        /\ signalled' = r.signalled
        /\ datanodes' = r.datanodes
        /\ configs' = r.configs
        /\ trace' = Append(trace, Teardown(n)) \o Spawns(r.spawned)
        /\ todo' = Tail(todo)
        /\ dpc' = IF r.raised THEN "raised" ELSE "datanodes"
        /\ UNCHANGED << monitor, snap, netVars >>

\* if self.monitor: self.monitor.destroy()
cluster_destroy_monitor(outcome, react, k, answer) ==
    LET r == MonitorNode_destroy(procs, signalled, datanodes, monitor,
                                 configs, outcome, react, k, answer)
    IN  /\ dpc = "datanodes"
        /\ todo = << >>
        /\ IF monitor = NoNode
           THEN /\ dpc' = "vlan"
                /\ UNCHANGED << monitor, procs, configs, signalled, trace >>
           ELSE /\ procs' = r.procs
                /\ signalled' = r.signalled
                /\ monitor' = r.monitor
                /\ configs' = r.configs
                /\ trace' = Append(trace, Teardown(monitor))
                                \o Spawns(r.spawned)
                /\ dpc' = IF r.raised THEN "raised" ELSE "vlan"
        /\ UNCHANGED << datanodes, todo, snap, netVars >>

\* self.vlan.destroy()
cluster_destroy_vlan ==
    /\ dpc = "vlan"
    /\ lan_destroy({})
    /\ trace' = Append(trace, LanTeardown)
    /\ dpc' = IF lastOp'.raised THEN "raised" ELSE "done"
    /\ UNCHANGED << procVars, todo, snap >>

\* The exception of Cluster.destroy reached the test, which goes on.
cluster_destroy_over ==
    /\ dpc = "raised"
    /\ dpc' = "idle"
    /\ todo' = << >>
    /\ snap' = [datanodes |-> << >>, monitor |-> NoNode]
    /\ trace' = << >>
    /\ UNCHANGED << procVars, netVars >>

ClusterNext ==
    \/ create_monitor /\ UNCHANGED notCluster
    \/ create_datanode /\ UNCHANGED notCluster
    \/ \E n \in Range(datanodes), run \in BOOLEAN :
          datanode_create(n, run) /\ UNCHANGED notCluster
    \/ \E n \in Namespaces :
          node_run(n)
              /\ UNCHANGED << netVars, cmdVars, dstVars, execVars, supVars, failVars, runVars >>
    \/ \E n \in Namespaces, how \in {"exited", "gone"} :
          proc_exit(n, how)
              /\ UNCHANGED << netVars, cmdVars, dstVars, execVars, supVars, failVars, runVars >>
    \/ /\ dpc = "idle"
       /\ \E n \in Range(datanodes), outcome \in Outcomes :
             \E react \in ReactsFor(procs, n, outcome),
                k \in NestingsFor(outcome), answer \in AnswersFor(outcome) :
                datanode_destroy(n, outcome, react, k, answer)
                    /\ UNCHANGED notCluster
    \/ /\ dpc = "idle" /\ monitor # NoNode
       /\ \E outcome \in Outcomes :
             \E react \in ReactsFor(procs, monitor, outcome),
                k \in NestingsFor(outcome), answer \in AnswersFor(outcome) :
                monitor_destroy(outcome, react, k, answer)
                    /\ UNCHANGED notCluster
    \/ cluster_destroy_call /\ UNCHANGED notCluster
    \/ /\ dpc = "datanodes" /\ todo # << >>
       /\ \E outcome \in Outcomes :
             \E react \in ReactsFor(procs, Head(todo), outcome),
                k \in NestingsFor(outcome), answer \in AnswersFor(outcome) :
                cluster_destroy_datanode(outcome, react, k, answer)
                    /\ UNCHANGED notCluster
    \/ /\ dpc = "datanodes" /\ todo = << >>
       /\ \E outcome \in Outcomes :
             \E react \in ReactsFor(procs, monitor, outcome),
                k \in NestingsFor(outcome), answer \in AnswersFor(outcome) :
                cluster_destroy_monitor(outcome, react, k, answer)
                    /\ UNCHANGED notCluster
    \/ cluster_destroy_vlan /\ UNCHANGED notCluster
    \/ cluster_destroy_over /\ UNCHANGED notCluster

\* Cluster.__init__: the VirtualLAN, no monitor, no data nodes.
InitCluster == NetIdle /\ CmdIdle /\ ProcIdle /\ WaitIdle /\ DstIdle
    /\ ExecIdle /\ SupIdle /\ FailIdle /\ RunIdle

SpecCluster == InitCluster /\ [][ClusterNext]_vars

\* The nodes whose teardown the trace has, in order.
TornDown == SelectSeq(trace, LAMBDA e : e.ev # "spawn")

\* C2: Cluster.destroy is collect-and-continue: whichever step of a data
\* node's or of the monitor's teardown fails, the call still attempts the
\* teardown of every data node it started with, of the monitor and of the
\* VirtualLAN.  The code lets the exception of DataNode.destroy's stop and
\* every exception of MonitorNode.destroy end the call.
C2_CollectAndContinue ==
    dpc \in {"done", "raised"} =>
        /\ \A n \in Range(snap.datanodes) : Teardown(n) \in Range(trace)
        /\ snap.monitor # NoNode => Teardown(snap.monitor) \in Range(trace)
        /\ LanTeardown \in Range(trace)

\* The order of creation, turned around, then the monitor, then the network.
C3_Order ==
    [i \in 1..Len(snap.datanodes) |->
        Teardown(snap.datanodes[Len(snap.datanodes) + 1 - i])]
    \o (IF snap.monitor = NoNode THEN << >> ELSE << Teardown(snap.monitor) >>)
    \o << LanTeardown >>

\* C3: Cluster.destroy tears down the data nodes in reverse order of
\* creation, then the monitor if there is one, then the VirtualLAN, and
\* spawns no command in a node's namespace once the teardown of the
\* VirtualLAN has started.
C3_TeardownOrder ==
    /\ Len(TornDown) <= Len(C3_Order)
    /\ TornDown = SubSeq(C3_Order, 1, Len(TornDown))
    /\ dpc = "done" => TornDown = C3_Order
    /\ \A i \in 1..Len(trace) : \A j \in (i + 1)..Len(trace) :
          trace[i] = LanTeardown => trace[j].ev # "spawn"

\* C3 witness: a Cluster.destroy that went through two data nodes, the
\* monitor and the VirtualLAN, the drop commands spawned before.
C3_Witness ==
    /\ dpc = "done"
    /\ Len(snap.datanodes) = 2
    /\ snap.monitor # NoNode
    /\ Len(TornDown) = 4
    /\ \A n \in Range(snap.datanodes) \cup {snap.monitor} :
          Spawn(n) \in Range(trace)
    /\ trace[Len(trace)] = LanTeardown


\* C19: a cluster has no monitor or one; create_monitor on a cluster that
\* has one raises, returns no node, and leaves the monitor, the node list of
\* the VirtualLAN and its address cursor as they were.
C19_SecondMonitorRaises ==
    [][monitor # NoNode =>
          /\ monitor' \in {monitor, NoNode}
          /\ (lastOp' # lastOp /\ lastOp'.op = "create_monitor") =>
                /\ lastOp'.raised /\ lastOp'.node = NoNode
                /\ UNCHANGED << monitor, datanodes, procs, configs >>
                /\ UNCHANGED << nodes, availableHosts, netns, interfaces >>]_vars

\* create_monitor has raised on a cluster whose monitor is still there.
C19_Witness ==
    /\ lastOp = Op("create_monitor", NoNode, TRUE, FALSE)
    /\ monitor # NoNode /\ monitor \in {nodes[i].namespace : i \in 1..Len(nodes)}

\* The namespace names and the addresses of the nodes the VirtualLAN made.
NamesMade == {nodes[i].namespace : i \in NodeIndexes}
AddressesMade == {nodes[i].address : i \in NodeIndexes}

\* What Cluster.create_monitor() would get from the VirtualLAN now.
NextNode == VirtualLAN_create_node(Lan, "none")

\* The step is a create_monitor call that made a monitor.
MadeMonitor == monitor = NoNode /\ monitor' # NoNode

\* The monitor made by the step is on a node of its own: its namespace name
\* and its address were given to no node before.
FreshMonitor ==
    /\ monitor' \notin NamesMade
    /\ \E i \in 1..Len(nodes') :
          /\ nodes'[i].namespace = monitor'
          /\ nodes'[i].address \notin AddressesMade \cup {bridgeAddress}

\* MonitorNode.destroy() called by the test has just completed.
MonitorDestroyed == lastOp.op = "monitor_destroy" /\ ~lastOp.raised

IsDestroyOf(n) ==
    \/ Len(trace') > Len(trace) /\ trace'[Len(trace) + 1] = Teardown(n)
    \/ lastOp' # lastOp /\ lastOp' \in {Op("monitor_destroy", n, raised, ~raised) :
                                          raised \in BOOLEAN}

\* C31 (as claimed): whatever became of the stop and of the drop command,
\* the destroy() of a data node or of the monitor leaves neither its
\* configuration file nor its state file behind, and files that are
\* missing already do not make it fail where the drop command succeeded.
C31_FilesRemovedAnyway ==
    [][\A n \in Namespaces : IsDestroyOf(n) => n \notin configs']_vars

\* How many times the trace has the teardown of node n.
TeardownsOf(n) == Len(SelectSeq(trace, LAMBDA e : e = Teardown(n)))

\* C28 (as claimed): a data node whose DataNode.destroy completed, its files
\* removed, is not in the list of data nodes and does not come back into it; a Cluster.destroy
\* does nothing for a node that was not in the cluster when it was called;
\* and when the call is over, every data node it started with has been
\* destroyed exactly once.
C28_DestroyedOnce ==
    /\ [][\A n \in Range(datanodes) :
             (n \in configs /\ n \notin configs')
                 => n \notin Range(datanodes')]_vars
    /\ [][Range(datanodes') \subseteq
             Range(datanodes) \cup (NamesMade' \ NamesMade)]_vars
    /\ [](\A i \in 1..Len(trace) :
             trace[i].node \in Range(snap.datanodes) \cup {snap.monitor, NoNode})
    /\ [](\A n \in Range(snap.datanodes) :
             /\ TeardownsOf(n) <= 1
             /\ dpc \in {"done", "raised"} => TeardownsOf(n) = 1)

\* ------------------------------------------------- one-shot commands

\* if proc.returncode > 0: raise ...
OutcomeOf(end) ==
    IF end.timedout THEN "timeout"
    ELSE IF end.returncode > 0 THEN "fail" ELSE "ok"

\* self.last_returncode = proc.returncode, which a timeout does not reach
ReturncodeOf(end) == IF end.timedout THEN NoCode ELSE end.returncode

\* The calls that turn exit code 1 into False.
Setters == {"set_candidate_priority", "set_replication_quorum",
            "set_number_sync_standbys"}

\* PGAutoCtl(node).execute(name, *args) on node n of the cluster.
node_execute(n, end, react, k, answer) ==
    LET e == PGAutoCtl_execute(procs, {}, datanodes, monitor, n,
                               OutcomeOf(end), react, k, answer)
    IN  /\ dpc = "idle" /\ wpc = "idle"
        /\ n \in Range(cluster_nodes(datanodes, monitor))
        /\ procs' = e.procs
        /\ signalled' = e.signalled
        /\ xop' = "execute"
        /\ xend' = end
        /\ last_returncode' = ReturncodeOf(end)
        /\ xrounds' = e.rounds
        /\ xres' = IF e.raised THEN Raised(e.error) ELSE Returned("output")
        /\ UNCHANGED << monitor, datanodes, configs >>

\* except Exception as e:
\*     if command.last_returncode == 1: return False
\*     raise e
\* return True
setter_result(e, returncode) ==
    IF ~e.raised THEN Returned("True")
    ELSE IF returncode = 1 THEN Returned("False")
    ELSE Raised(e.error)

\* DataNode.set_candidate_priority, set_replication_quorum and
\* set_number_sync_standbys on data node n.
node_set(op, n, end, react, k, answer) ==
    LET e == PGAutoCtl_execute(procs, {}, datanodes, monitor, n,
                               OutcomeOf(end), react, k, answer)
    IN  /\ dpc = "idle" /\ wpc = "idle"
        /\ n \in Range(datanodes)
        /\ procs' = e.procs
        /\ signalled' = e.signalled
        /\ xop' = op
        /\ xend' = end
        /\ last_returncode' = ReturncodeOf(end)
        /\ xrounds' = e.rounds
        /\ xres' = setter_result(e, ReturncodeOf(end))
        /\ UNCHANGED << monitor, datanodes, configs >>

\* PGNode.pg_is_running(): whatever execute raises means False.
pg_is_running(e) == ~e.raised

\* node.pg_is_running() called by a test on data node n: the execute of
\* "pgsetup ready" with all it does, and a boolean.
node_pg_is_running(n, end, react, k, answer) ==
    LET e == PGAutoCtl_execute(procs, {}, datanodes, monitor, n,
                               OutcomeOf(end), react, k, answer)
    IN  /\ dpc = "idle" /\ wpc = "idle"
        /\ n \in Range(datanodes)
        /\ procs' = e.procs
        /\ signalled' = e.signalled
        /\ xop' = "pg_is_running"
        /\ xend' = end
        /\ last_returncode' = ReturncodeOf(end)
        /\ xrounds' = e.rounds
        /\ xres' = IF pg_is_running(e) THEN Returned("True")
                   ELSE Returned("False")
        /\ UNCHANGED << monitor, datanodes, configs >>

\* VirtualNode.run_and_wait(command, name, timeout): the process is killed
\* on a timeout; nothing of the cluster is flushed.
run_and_wait(end) ==
    /\ dpc = "idle" /\ wpc = "idle"
    /\ xop' = "run_and_wait"
    /\ xend' = end
    /\ xres' = IF OutcomeOf(end) = "ok" THEN Returned("output")
               ELSE Raised("Exception")
    /\ xrounds' = 0
    /\ UNCHANGED << procVars, last_returncode >>

ExecNext ==
    \/ \E n \in Range(cluster_nodes(datanodes, monitor)), end \in Ends :
          \E react \in ReactsFor(procs, n, OutcomeOf(end)),
             k \in NestingsFor(OutcomeOf(end)),
             answer \in AnswersFor(OutcomeOf(end)) :
             node_execute(n, end, react, k, answer) /\ UNCHANGED notExec
    \/ \E op \in Setters, end \in Ends :
          \E react \in ReactsFor(procs, Head(datanodes), OutcomeOf(end)) :
             node_set(op, Head(datanodes), end, react, 0, "events")
                 /\ UNCHANGED notExec
    \/ \E end \in Ends :
          \E react \in ReactsFor(procs, Head(datanodes), OutcomeOf(end)) :
             node_pg_is_running(Head(datanodes), end, react, 0, "events")
                 /\ UNCHANGED notExec
    \/ \E end \in Ends : run_and_wait(end) /\ UNCHANGED notExec
    \/ \E n \in Namespaces, how \in {"exited", "gone"} :
          proc_exit(n, how)
              /\ UNCHANGED << netVars, cmdVars, dstVars, execVars, supVars, failVars, runVars >>
    \/ \E n \in Namespaces :
          node_run(n)
              /\ UNCHANGED << netVars, cmdVars, dstVars, execVars, supVars, failVars, runVars >>

InitExec == NetIs(LanAfter(ClusterSize), NoFile) /\ CmdIdle /\ ClusterUp
            /\ WaitIdle /\ DstIdle /\ ExecIdle /\ SupIdle /\ FailIdle /\ RunIdle

SpecExec == InitExec /\ [][ExecNext]_vars

\* C12: a one-shot command (execute, run_and_wait) returns its output only
\* when the process exits with code 0 within the timeout; every other return
\* code and a timeout raise, execute raising CalledProcessError for a return
\* code.  The code tests returncode > 0, and a process killed by a signal
\* has a negative one.
C12_ReturnsOnlyOnZero ==
    xop \in {"execute", "run_and_wait"} =>
        /\ xres.error = "none" <=> (~xend.timedout /\ xend.returncode = 0)
        /\ (xop = "execute" /\ ~xend.timedout /\ xend.returncode # 0) =>
              xres.error = "CalledProcessError"

\* C13: set_candidate_priority, set_replication_quorum and
\* set_number_sync_standbys return True exactly when the command exits with
\* code 0, False exactly when it exits with code 1, and raise for every other
\* return code and for a timeout.  A command killed by a signal is taken by
\* execute as a success, and the call returns True.
C13_TrueFalseOrRaise ==
    xop \in Setters =>
        /\ xres.value = "True" <=> (~xend.timedout /\ xend.returncode = 0)
        /\ xres.value = "False" <=> (~xend.timedout /\ xend.returncode = 1)
        /\ xres.error # "none" <=>
              (xend.timedout \/ xend.returncode \notin {0, 1})

\* C21: an execute whose command does not exit within its timeout raises
\* after one round of diagnostics, whatever the commands of that round do.
\* The code runs print_debug_logs, which asks the monitor for its events
\* through pg_is_running, an execute of "pgsetup ready": when that one times
\* out too it runs print_debug_logs again, one level deeper, and so on for
\* as long as the readiness command times out.
C21_OneRoundOfDiagnostics ==
    xop = "execute" => xrounds = (IF xend.timedout THEN 1 ELSE 0)

\* C30 (as claimed): pg_is_running returns False only when the readiness
\* command exited with a non-zero code, and when that command times out the
\* caller gets an error, not a result.
C30_TimeoutNotSwallowed ==
    xop = "pg_is_running" =>
        /\ xres.value = "False" => (~xend.timedout /\ xend.returncode # 0)
        /\ xend.timedout => xres.error # "none"

\* ------------------------------------- one node: handles and their release

\* The node's supervisor as one value.
Sup == [held |-> held, pstate |-> pstate, pcode |-> pcode, out |-> out, spawns |-> spawns, releases |-> releases, dropped |-> dropped, strays |-> strays, orphans |-> orphans, sigs |-> sigs]

\* The variables take the fields of s.
SupIs(s) ==
    /\ held' = s.held
    /\ pstate' = s.pstate
    /\ pcode' = s.pcode
    /\ out' = s.out
    /\ spawns' = s.spawns
    /\ releases' = s.releases
    /\ dropped' = s.dropped
    /\ strays' = s.strays
    /\ orphans' = s.orphans
    /\ sigs' = s.sigs

\* What a call gives back: the supervisor after it, its result, and what the
\* communicate inside it returned when it saw the process exit.
Gives(s, result, seen) == [sup |-> s, result |-> result, seen |-> seen]

\* NSPopen.release on the handle the supervisor holds.
release(s) == [s EXCEPT !.releases[s.held] = @ + 1]

\* self.run_proc = None.
forget(s) == [s EXCEPT !.held = 0, !.pstate = "none", !.pcode = NoCode]

\* run_unmanaged: a new background process, its handle kept in run_proc.
\* The process held before, if it runs, runs on: nothing signals it.
run_unmanaged(s) == [s EXCEPT !.spawns = @ + 1, !.held = s.spawns + 1, !.pstate = "running", !.pcode = NoCode, !.orphans = @ \cup (IF s.pstate = "running" THEN {s.held} ELSE {})]

on_timeout_release(s) == forget(release(s))

\* run_proc.communicate raised TimeoutExpired: the assignment to self.out,
\* self.err did not happen and none of the statements after it ran.
on_timeout(s) == s

\* PGAutoCtl.communicate(timeout).  A process that is running when the call
\* is made is still running when the timeout elapses (one that exits in
\* between has exited before the call).
PGAutoCtl_communicate(s) ==
    IF s.held = 0
    THEN Gives(s, Result("pair", s.out, NoCode), NoResult)
    ELSE IF s.pstate = "running"
    THEN Gives(on_timeout(s), Result("TimeoutExpired", s.held, NoCode), NoResult)
    ELSE LET ret == Result("triple", s.held, s.pcode)
         IN  Gives([forget(release(s)) EXCEPT !.out = s.held], ret, ret)

\* PGAutoCtl.consume_output(secs): unpacks three values from communicate,
\* which gives two when there is no process.
PGAutoCtl_consume_output(s) ==
    LET r == PGAutoCtl_communicate(s)
    IN  IF r.result.shape = "pair"
        THEN Gives(r.sup, Result("ValueError", 0, NoCode), r.seen)
        ELSE Gives(r.sup, Result("pair", r.sup.out, NoCode), r.seen)

\* PGNode.running and PGNode.flush_output.
PGNode_running(s) == s.held # 0
PGNode_flush_output(s) ==
    IF PGNode_running(s)
    THEN LET r == PGAutoCtl_consume_output(s)
         IN  Gives(r.sup, Result("None", 0, NoCode), r.seen)
    ELSE Gives(s, Result("None", 0, NoCode), NoResult)

\* PGAutoCtl.run on a supervisor that may hold a handle already.
PGAutoCtl_run_again(s) ==
    IF s.held # 0
    THEN run_unmanaged([release(s) EXCEPT !.strays = @ \cup {s.held}])
    ELSE run_unmanaged(s)

\* PGNode.run: a new PGAutoCtl takes the place of the node's supervisor,
\* whatever the old one holds, and runs.
PGNode_run(s) ==
    LET old == IF s.held # 0 /\ s.releases[s.held] = 0 THEN {s.held} ELSE {}
        live == IF s.pstate = "running" THEN {s.held} ELSE {}
    IN  run_unmanaged([forget(s) EXCEPT !.out = 0, !.dropped = @ \cup old, !.orphans = @ \cup live])

\* How the process takes SIGTERM: it has exited before the cluster's flush,
\* it exits within the timeout, or it does not exit.
StopReactions == {"fast", "slow", "hang"}
ExitCodes == {0, 1}

\* PGAutoCtl.stop, with Cluster.communicate: the node is one of the
\* cluster's, so each round flushes it and then communicates for a second.
stop(s, reaction, code) ==
    IF s.held = 0
    THEN Gives(s, Result("triple", 0, 0), NoResult)
    ELSE IF s.pstate = "gone"
    THEN Gives([forget(s) EXCEPT !.dropped = @ \cup {s.held}], Result("triple", 0, -1), NoResult)
    ELSE LET sent == [s EXCEPT !.sigs = @ \cup {s.held}]
             ended == [sent EXCEPT !.pstate = "exited", !.pcode = code]
         IN  IF s.pstate = "exited" \/ reaction = "fast"
             THEN LET f == PGNode_flush_output(IF s.pstate = "exited" THEN sent ELSE ended)
                      c == PGAutoCtl_communicate(f.sup)
                  IN  Gives(c.sup, c.result, f.seen)
             ELSE IF reaction = "slow"
             THEN PGAutoCtl_communicate(ended)
             ELSE PGAutoCtl_communicate(sent)

\* A call on the node: what it was, what it gave.
Called(op, r) ==
    /\ SupIs(r.sup)
    /\ sop' = op
    /\ sres' = r.result
    /\ collected' = IF r.seen # NoResult THEN r.seen ELSE collected
    /\ stick' = ~stick

sup_communicate == Called("communicate", PGAutoCtl_communicate(Sup))
sup_consume_output == Called("consume_output", PGAutoCtl_consume_output(Sup))
sup_flush_output == Called("flush_output", PGNode_flush_output(Sup))
sup_stop(reaction, code) == Called("stop", stop(Sup, reaction, code))

\* The two ways to run; the process whose exit was seen is no longer the
\* supervisor's.
sup_run ==
    /\ spawns < MaxRuns
    /\ SupIs(PGAutoCtl_run_again(Sup))
    /\ sop' = "run"
    /\ sres' = Result("None", 0, NoCode)
    /\ collected' = NoResult
    /\ stick' = ~stick

node_run_new ==
    /\ spawns < MaxRuns
    /\ SupIs(PGNode_run(Sup))
    /\ sop' = "PGNode.run"
    /\ sres' = Result("None", 0, NoCode)
    /\ collected' = NoResult
    /\ stick' = ~stick

\* The process exits by itself, and something else than the harness may
\* collect it, after which its pid finds no process.
sup_exit(code) ==
    /\ pstate = "running"
    /\ pstate' = "exited"
    /\ pcode' = code
    /\ UNCHANGED << held, out, spawns, releases, dropped, strays, orphans, sigs, sop, sres, collected, stick >>

sup_reaped ==
    /\ pstate = "exited"
    /\ pstate' = "gone"
    /\ UNCHANGED << held, pcode, out, spawns, releases, dropped, strays, orphans, sigs, sop, sres, collected, stick >>

notSup == << netVars, cmdVars, procVars, waitVars, dstVars, execVars,
            failVars, runVars >>

SupNext ==
    \/ sup_communicate /\ UNCHANGED notSup
    \/ sup_consume_output /\ UNCHANGED notSup
    \/ sup_flush_output /\ UNCHANGED notSup
    \/ \E reaction \in StopReactions, code \in ExitCodes :
          sup_stop(reaction, code) /\ UNCHANGED notSup
    \/ sup_run /\ UNCHANGED notSup
    \/ node_run_new /\ UNCHANGED notSup
    \/ \E code \in ExitCodes : sup_exit(code) /\ UNCHANGED notSup
    \/ sup_reaped /\ UNCHANGED notSup

InitSup == NetIdle /\ CmdIdle /\ ProcIdle /\ WaitIdle /\ DstIdle /\ ExecIdle /\ SupIdle /\ FailIdle /\ RunIdle

SpecSup == InitSup /\ [][SupNext]_vars

\* C14: once a communicate has returned because the process exited, every
\* later communicate on the supervisor returns what that call returned.
\* The code returns (out, err, ret) from the call that sees the exit and
\* (out, err) from every later one: the return code is not kept.
C14_CommunicateIdempotent ==
    (sop = "communicate" /\ collected # NoResult) => sres = collected

\* C15: a communicate that times out on a running process raises
\* TimeoutExpired and leaves the supervisor as it was: the handle is kept
\* and not released, the process is not signalled, and the output captured
\* before is not overwritten.
C15_TimeoutLeavesSupervisor ==
    [][(stick' # stick /\ sop' = "communicate" /\ pstate = "running")
          => /\ sres'.shape = "TimeoutExpired"
             /\ held' = held /\ pstate' = pstate
             /\ releases' = releases /\ dropped' = dropped
             /\ sigs' = sigs
             /\ out' = out]_vars

\* A communicate has timed out on the second process of a supervisor that
\* holds the output of its first.
C15_Witness ==
    /\ sop = "communicate" /\ sres.shape = "TimeoutExpired"
    /\ pstate = "running" /\ held = 2 /\ out = 1

\* C16: the handle of every process spawned is released once and no more,
\* by the communicate that sees the process exit: a process that is no
\* longer the supervisor's has been released exactly once, none was released
\* by another call, and none was forgotten unreleased.
C16_ReleasedExactlyOnce ==
    \A p \in 1..spawns :
        /\ releases[p] <= 1
        /\ p # held => releases[p] = 1
        /\ p \notin strays
        /\ p \notin dropped

\* C17: stop on a supervisor whose process no longer exists (none was
\* started, its exit was collected, or its pid finds no process) raises
\* nothing and reports what the stop of a process that exits cleanly
\* reports: a return code of 0.
C17_StopWithoutProcess ==
    [][(stick' # stick /\ sop' = "stop" /\ (held = 0 \/ pstate = "gone"))
          => (sres'.shape = "triple" /\ sres'.ret = 0)]_vars

\* C22: a node has at most one live background pg_autoctl: a run never
\* leaves the process of an earlier run of the node running and unsupervised.
\* PGNode.run and DataNode.create put a new PGAutoCtl in place of the
\* node's, and PGAutoCtl.run a new handle in place of its own, without
\* stopping the process that runs.
C22_OneLiveProcess == orphans = {}

\* C34 (as claimed): stop on a supervisor whose process runs gives the triple
\* (out, err, ret) with the return code of the process whenever the process
\* exits within the timeout, also when the flush of the cluster is what sees
\* the exit.  In the code the flush then collects the process and forgets
\* it, and the communicate that follows returns the pair (out, err).
C34_StopGivesTriple ==
    [][(stick' # stick /\ sop' = "stop" /\ pstate = "running"
            /\ sres'.shape # "TimeoutExpired")
          => (sres'.shape = "triple" /\ sres'.ret \in ExitCodes)]_vars

\* ---------------------------------------------------------- PGNode.fail

\* How "pg_ctl stop" goes: it stops Postgres, it exits with a code above 0,
\* or none of the 60 attempts ends within its second.
PgCtls == {"stopped", "failed", "raced"}

\* "pg_autoctl do pgsetup ready" exits with 0 when Postgres is ready and
\* with EXIT_CODE_PGSQL when it is not, be it down or up and not ready yet;
\* it may also run out of time.
ReadyFor(pg) == IF pg = "up" THEN Outcomes ELSE {"fail", "timeout"}

\* "pg_ctl stop" is run when Postgres was found ready.
PgCtlsFor(ready) == IF ready = "ok" THEN PgCtls ELSE {"stopped"}

\* Whether Postgres outlives its pg_autoctl matters when both run.
OrphansFor(p, pg) == IF p = "running" /\ pg = "up" THEN BOOLEAN ELSE {FALSE}

\* PGNode.stop_postgres(): Postgres after it, what it returned, or raised.
stop_postgres(pg, pgctl) ==
    CASE pgctl = "stopped" -> [pg |-> "down", raised |-> FALSE, value |-> "True"]
      [] pgctl = "failed" -> [pg |-> pg, raised |-> FALSE, value |-> "False"]
      [] OTHER -> [pg |-> pg, raised |-> TRUE, value |-> "none"]

\* PGNode.fail() does not look at what stop_postgres returned: it raises
\* when stop_postgres does.
fail_raises(r) == r.raised

\* How the call ended: the node, whether it raised, the steps it took, and
\* whether the node's pg_autoctl and Postgres ran when it ended.
FailCall(n, raised, steps, ps, pg) == [node |-> n, raised |-> raised, steps |-> steps, autoctl |-> (ps[n] = "running"), pg |-> pg]

\* PGNode.fail() on node n.  orphan: Postgres outlives its pg_autoctl.
node_fail(n, react, orphan, ready, pgctl) ==
    LET cn == cluster_nodes(datanodes, monitor)
        s == stop_pg_autoctl(procs, signalled, n, cn, react[n])
        left == IF procs[n] = "running" /\ s.result # "timeout" /\ ~orphan
                THEN "down" ELSE postgres[n]
        e == PGAutoCtl_execute(s.procs, s.signalled, datanodes, monitor, n,
                               ready, react, 0, "events")
        p == stop_postgres(left, pgctl)
    IN  /\ dpc = "idle" /\ wpc = "idle"
        /\ n \in Range(cn)
        /\ ready \in ReadyFor(left)
        /\ IF s.result = "timeout"
           THEN /\ procs' = s.procs
                /\ signalled' = s.signalled
                /\ postgres' = postgres
                /\ fcall' = FailCall(n, TRUE, << "stop_pg_autoctl" >>,
                                     s.procs, postgres[n])
           ELSE IF ~pg_is_running(e)
           THEN /\ procs' = e.procs
                /\ signalled' = e.signalled
                /\ postgres' = [postgres EXCEPT ![n] = left]
                /\ fcall' = FailCall(n, FALSE,
                                     << "stop_pg_autoctl", "pg_is_running" >>,
                                     e.procs, left)
           ELSE /\ procs' = e.procs
                /\ signalled' = e.signalled
                /\ postgres' = [postgres EXCEPT ![n] = p.pg]
                /\ fcall' = FailCall(n, fail_raises(p),
                                     << "stop_pg_autoctl", "pg_is_running",
                                        "stop_postgres" >>,
                                     e.procs, p.pg)
        /\ UNCHANGED << monitor, datanodes, configs >>

\* The place of node n in the node list of the VirtualLAN.
PlaceOf(n) == CHOOSE i \in NodeIndexes : nodes[i].namespace = n

\* PGNode.ifdown() and PGNode.ifup(): self.vnode.ifdown(), self.vnode.ifup().
node_ifdown(n) ==
    /\ ifdown(PlaceOf(n))
    /\ UNCHANGED << procVars, failVars, runVars >>

node_ifup(n) ==
    /\ ifup(PlaceOf(n))
    /\ UNCHANGED << procVars, failVars, runVars >>

\* A running pg_autoctl starts its Postgres.
postgres_start(n) ==
    /\ procs[n] = "running"
    /\ postgres[n] = "down"
    /\ postgres' = [postgres EXCEPT ![n] = "up"]
    /\ UNCHANGED fcall

notFail == << netVars, cmdVars, waitVars, dstVars, execVars, supVars, runVars >>

FailNext ==
    \/ \E n \in Range(datanodes) :
          \E orphan \in OrphansFor(procs[n], postgres[n]), ready \in Outcomes :
             \E pgctl \in PgCtlsFor(ready), react \in ReactsFor(procs, n, ready) :
                node_fail(n, react, orphan, ready, pgctl) /\ UNCHANGED notFail
    \/ \E n \in Range(datanodes) :
          postgres_start(n) /\ UNCHANGED << notFail, procVars >>
    \/ node_ifdown(Head(datanodes))
          /\ UNCHANGED << cmdVars, waitVars, dstVars, execVars, supVars >>
    \/ node_ifup(Head(datanodes))
          /\ UNCHANGED << cmdVars, waitVars, dstVars, execVars, supVars >>
    \/ \E n \in Namespaces :
          proc_exit(n, "exited")
              /\ UNCHANGED << netVars, cmdVars, dstVars, execVars, supVars, failVars, runVars >>
    \/ \E n \in Namespaces :
          node_run(n)
              /\ UNCHANGED << netVars, cmdVars, dstVars, execVars, supVars, failVars, runVars >>

InitFail == NetIs(LanAfter(ClusterSize), NoFile) /\ CmdIdle /\ ClusterUp /\ WaitIdle /\ DstIdle /\ ExecIdle /\ SupIdle /\ FailIdle /\ RunIdle

SpecFail == InitFail /\ [][FailNext]_vars

\* C18: fail(node) stops pg_autoctl first and Postgres afterwards, and
\* Postgres only if it is found running; when the call returns, neither the
\* node's pg_autoctl nor its Postgres runs.
\* The code stops Postgres only when "pgsetup ready" succeeded and does not
\* look at what stop_postgres returned, so it may return with Postgres
\* running.
C18_FailStopsBoth ==
    (fcall.node # NoNode /\ ~fcall.raised) =>
        /\ fcall.steps \in {<< "stop_pg_autoctl", "pg_is_running" >>, << "stop_pg_autoctl", "pg_is_running", "stop_postgres" >>}
        /\ ~fcall.autoctl
        /\ fcall.pg = "down"

\* The step is a call of ifdown or ifup on a node.
IsIfCall == lastOp' # lastOp /\ lastOp'.op \in {"ifdown", "ifup"}

\* Nothing but the state of the veth peer of the node of the call differs
\* after the step: the processes of every node, the namespaces, the node
\* list with its addresses, and every other interface are as they were.
OnlyPeerState ==
    /\ UNCHANGED << procs, postgres, signalled, netns, nodes, availableHosts,
                    issued >>
    /\ \A i \in IfNames :
          IF i = vethPeer(lastOp'.node)
          THEN /\ interfaces'[i] = [interfaces[i] EXCEPT !.state = interfaces'[i].state]
               /\ interfaces'[i].state =
                      (IF lastOp'.op = "ifdown" THEN "down" ELSE "up")
          ELSE interfaces'[i] = interfaces[i]

\* The step is the ifup of the node whose ifdown was the call before.
IsIfupAfterIfdown ==
    /\ IsIfCall /\ lastOp'.op = "ifup"
    /\ lastOp.op = "ifdown" /\ lastOp.node = lastOp'.node

\* C33 (as claimed): ifdown and ifup change the state of the node's veth
\* peer and nothing else, and the ifup that follows an ifdown leaves the
\* link in the state it had before the ifdown.
C33_OnlyLinkAndBack ==
    /\ [][IsIfCall => OnlyPeerState]_vars
    /\ [][IsIfupAfterIfdown =>
             interfaces'[vethPeer(lastOp'.node)].state =
                (IF lastOp.changed THEN "up" ELSE "down")]_vars

\* C33 (amended): the same frame; ifup leaves the link up whatever state it
\* had, so the ifup that follows an ifdown restores the state from before
\* the ifdown when the link was up then, and not when it was down already.
C33_OnlyLinkAndUp ==
    /\ [][IsIfCall => OnlyPeerState]_vars
    /\ [][IsIfupAfterIfdown =>
             interfaces'[vethPeer(lastOp'.node)].state = "up"]_vars
    /\ [](\A n \in NamesMade :
             interfaces[vethPeer(n)].state = (IF n \in downed THEN "down" ELSE "up"))

\* C33 witness: ifup has brought back the link of a node whose pg_autoctl
\* and Postgres run, as do those of the other nodes.
C33_Witness ==
    /\ lastOp.op = "ifup" /\ lastOp.changed /\ ~lastOp.raised
    /\ postgres[lastOp.node] = "up"
    /\ \A n \in Range(datanodes) \cup {monitor} : procs[n] = "running"

\* ------------------- a command run through VirtualNode.run, step by step

\* for i in range(60)
STOP_ATTEMPTS == 60

\* proc.communicate(timeout=2) in the finally of managed_nspopen
KILL_WAIT == 2 * Second

\* The calls that wait through Cluster.communicate.
Flushing == {"execute", "reload_postgres"}

Callers == Flushing \cup {"run_and_wait", "stop_postgres"}

\* The timeouts a caller passes: every half second up to MaxTimeout seconds,
\* and the default.
RunTimeouts == {k * (Second \div 2) : k \in 0..(2 * MaxTimeout)}
                  \cup {COMMAND_TIMEOUT}

\* execute and run_and_wait take a timeout, reload_postgres passes
\* COMMAND_TIMEOUT and stop_postgres waits one second per attempt.
TimeoutsOf(c) ==
    CASE c = "reload_postgres" -> {COMMAND_TIMEOUT}
      [] c = "stop_postgres" -> {Second}
      [] OTHER -> RunTimeouts

\* full_secs = int(timeout)
full_secs(t) == t \div Second

\* Mutant of SliceOf: the whole timeout is given to every wait.
one_long_slice(t, k) == t

\* Cluster.communicate: the timeout of the k-th proc.communicate, counted
\* from 0: one second inside the loop, timeout - full_secs after it.
SliceOf(t, k) == IF k < full_secs(t) THEN Second ELSE t - full_secs(t) * Second

\* The timeout of the k-th wait of caller c.
WaitOf(c, t, k) == IF c \in Flushing THEN SliceOf(t, k) ELSE t

\* When, within a wait of length len, the exit of the process is seen: at
\* once, or half way through.
ExitTimes(len) == {0, len \div 2}

\* What a caller makes of a process that has exited with code rc.
ValueOf(c, rc) ==
    CASE c = "execute" ->
            IF rc > 0 THEN Raised("CalledProcessError") ELSE Returned("triple")
      [] c = "run_and_wait" ->
            IF rc > 0 THEN Raised("Exception") ELSE Returned("pair")
      [] OTHER ->
            IF rc > 0 THEN Returned("False")
            ELSE IF rc = NoCode THEN Returned("False")
            ELSE Returned("True")

\* The node of the call.
RunNode == IF conmonitor THEN monitor ELSE Head(datanodes)

\* A caller enters "with self.vnode.run(command) as proc".
run_call(c, t, m) ==
    /\ cpc = "idle"
    /\ who' = c
    /\ conmonitor' = m
    /\ ctimeout' = t
    /\ cattempts' = IF c = "stop_postgres" THEN 1 ELSE 0
    /\ cproc' = "running"
    /\ creturncode' = NoCode
    /\ creleases' = 0
    /\ cleaked' = FALSE
    /\ ctogether' = clingers
    /\ cslices' = 0
    /\ cflushes' = 0
    /\ cwaited' = 0
    /\ cdry' = 0
    /\ cres' = Returned("none")
    /\ cpc' = IF c \in Flushing THEN "flush" ELSE "slice"
    /\ UNCHANGED << clingers, procVars >>

\* Cluster.communicate: self.flush_output()
run_flush ==
    /\ cpc = "flush"
    /\ procs' = Cluster_flush_output(procs, cluster_nodes(datanodes, monitor))
    /\ cflushes' = cflushes + 1
    /\ cdry' = 0
    /\ cpc' = "slice"
    /\ UNCHANGED << who, conmonitor, ctimeout, cattempts, cproc, creturncode,
                    creleases, clingers, cleaked, ctogether, cslices,
                    cwaited, cres >>
    /\ UNCHANGED << monitor, datanodes, configs, signalled >>

\* proc.communicate(timeout=...) returns: the process has exited with code
\* rc, d into the wait.
run_slice_exit(d, rc) ==
    /\ cpc = "slice"
    /\ d \in ExitTimes(WaitOf(who, ctimeout, cslices))
    /\ cproc' = "exited"
    /\ creturncode' = rc
    /\ cslices' = cslices + 1
    /\ cwaited' = cwaited + d
    /\ cdry' = cdry + d
    /\ cpc' = "caller"
    /\ UNCHANGED << who, conmonitor, ctimeout, cattempts, creleases, clingers,
                    cleaked, ctogether, cflushes, cres, procVars >>

\* proc.communicate(timeout=...) raises TimeoutExpired: inside the loop of
\* Cluster.communicate it is passed over, elsewhere it reaches the caller.
run_slice_out ==
    /\ cpc = "slice"
    /\ cslices' = cslices + 1
    /\ cwaited' = cwaited + WaitOf(who, ctimeout, cslices)
    /\ cdry' = cdry + WaitOf(who, ctimeout, cslices)
    /\ cpc' = IF who \in Flushing /\ cslices < full_secs(ctimeout)
              THEN "flush" ELSE "timedout"
    /\ UNCHANGED << who, conmonitor, ctimeout, cattempts, cproc, creturncode,
                    creleases, clingers, cleaked, ctogether, cflushes, cres,
                    procVars >>

\* The wait returned: the caller looks at proc.returncode and returns or
\* raises; the finally of managed_nspopen finds the process dead and
\* releases its handle.
run_returns ==
    /\ cpc = "caller"
    /\ cres' = ValueOf(who, creturncode)
    /\ creleases' = creleases + 1
    /\ cpc' = "over"
    /\ UNCHANGED << who, conmonitor, ctimeout, cattempts, cproc, creturncode,
                    clingers, cleaked, ctogether, cslices, cflushes, cwaited,
                    cdry, procVars >>

\* run_and_wait on TimeoutExpired: proc.kill(), proc.communicate() with no
\* timeout, raise Exception; the finally finds the process dead.
run_and_wait_timeout ==
    /\ cpc = "timedout" /\ who = "run_and_wait"
    /\ cproc' = "exited"
    /\ creturncode' = -9
    /\ creleases' = creleases + 1
    /\ cres' = Raised("Exception")
    /\ cpc' = "over"
    /\ UNCHANGED << who, conmonitor, ctimeout, cattempts, clingers, cleaked,
                    ctogether, cslices, cflushes, cwaited, cdry, procVars >>

\* The finally of managed_nspopen with the process alive: proc.kill(), then
\* proc.communicate(timeout=2), which returns (dies) and the handle is
\* released, or raises TimeoutExpired and proc.release() is not reached.
managed_nspopen_kill(dies) ==
    IF dies
    THEN /\ cproc' = "exited"
         /\ creturncode' = -9
         /\ creleases' = creleases + 1
         /\ UNCHANGED << clingers, cleaked, cwaited, cdry >>
    ELSE /\ clingers' = TRUE
         /\ cleaked' = TRUE
         /\ cwaited' = cwaited + KILL_WAIT
         /\ cdry' = cdry + KILL_WAIT
         /\ UNCHANGED << cproc, creturncode, creleases >>

\* execute on TimeoutExpired: print_debug_logs, whose get_events runs
\* "pgsetup ready" on the monitor while proc is alive, then raise Exception
\* through the finally of managed_nspopen.
execute_timeout(dies, react) ==
    /\ cpc = "timedout" /\ who = "execute"
    /\ \E r \in {print_debug_logs(procs, signalled, datanodes, monitor,
                                  react, 0, "events")} :
          /\ procs' = r.procs
          /\ cres' = IF ~dies THEN Raised("TimeoutExpired")
                     ELSE IF r.raised THEN Raised("other")
                     ELSE Raised("Exception")
    /\ ctogether' = (ctogether \/ conmonitor)
    /\ managed_nspopen_kill(dies)
    /\ cpc' = "over"
    /\ UNCHANGED << who, conmonitor, ctimeout, cattempts, cslices, cflushes >>
    /\ UNCHANGED << monitor, datanodes, configs, signalled >>

\* reload_postgres: TimeoutExpired leaves the with block and the call.
reload_postgres_timeout(dies) ==
    /\ cpc = "timedout" /\ who = "reload_postgres"
    /\ managed_nspopen_kill(dies)
    /\ cres' = Raised("TimeoutExpired")
    /\ cpc' = "over"
    /\ UNCHANGED << who, conmonitor, ctimeout, cattempts, ctogether, cslices,
                    cflushes, procVars >>

\* stop_postgres: TimeoutExpired leaves the with block, "except
\* subprocess.TimeoutExpired: pass" takes it, be it the one of the wait or
\* the one of the finally, and the loop runs pg_ctl again; its else clause
\* raises after the last attempt.
stop_postgres_timeout(dies) ==
    /\ cpc = "timedout" /\ who = "stop_postgres"
    /\ IF cattempts < STOP_ATTEMPTS
       THEN /\ cattempts' = cattempts + 1
            /\ cproc' = "running"
            /\ creturncode' = NoCode
            /\ creleases' = 0
            /\ clingers' = (clingers \/ ~dies)
            /\ cleaked' = (cleaked \/ ~dies)
            /\ ctogether' = (ctogether \/ clingers \/ ~dies)
            /\ cwaited' = cwaited + (IF dies THEN 0 ELSE KILL_WAIT)
            /\ cdry' = cdry + (IF dies THEN 0 ELSE KILL_WAIT)
            /\ cpc' = "slice"
            /\ UNCHANGED cres
       ELSE /\ managed_nspopen_kill(dies)
            /\ cres' = Raised("Exception")
            /\ cpc' = "over"
            /\ UNCHANGED << cattempts, ctogether >>
    /\ UNCHANGED << who, conmonitor, ctimeout, cslices, cflushes, procVars >>

\* A process that outlived its with block ends.
linger_exit ==
    /\ clingers
    /\ cpc \in {"idle", "over"}
    /\ clingers' = FALSE
    /\ cproc' = IF cproc = "running" THEN "exited" ELSE cproc
    /\ UNCHANGED << who, cpc, conmonitor, ctimeout, cattempts, creturncode,
                    creleases, cleaked, ctogether, cslices, cflushes, cwaited,
                    cdry, cres, procVars >>

\* The test goes on after the call; what the call left of itself is a
\* process that outlived its with block.
run_over ==
    /\ cpc = "over"
    /\ cpc' = "idle"
    /\ who' = "none"
    /\ conmonitor' = FALSE
    /\ ctimeout' = 0
    /\ cattempts' = 0
    /\ cproc' = "none"
    /\ creturncode' = NoCode
    /\ creleases' = 0
    /\ cleaked' = FALSE
    /\ ctogether' = FALSE
    /\ cslices' = 0
    /\ cflushes' = 0
    /\ cwaited' = 0
    /\ cdry' = 0
    /\ cres' = Returned("none")
    /\ UNCHANGED << clingers, procVars >>

notRun == << netVars, cmdVars, waitVars, dstVars, execVars, supVars,
             failVars >>

RunNext ==
    \/ \E c \in Callers, m \in BOOLEAN :
          \E t \in TimeoutsOf(c) : run_call(c, t, m) /\ UNCHANGED notRun
    \/ run_flush /\ UNCHANGED notRun
    \/ \E d \in ExitTimes(WaitOf(who, ctimeout, cslices)), rc \in ReturnCodes :
          run_slice_exit(d, rc) /\ UNCHANGED notRun
    \/ run_slice_out /\ UNCHANGED notRun
    \/ run_returns /\ UNCHANGED notRun
    \/ run_and_wait_timeout /\ UNCHANGED notRun
    \/ \E dies \in BOOLEAN, react \in Reacts(procs) :
          execute_timeout(dies, react) /\ UNCHANGED notRun
    \/ \E dies \in BOOLEAN : reload_postgres_timeout(dies) /\ UNCHANGED notRun
    \/ \E dies \in BOOLEAN : stop_postgres_timeout(dies) /\ UNCHANGED notRun
    \/ linger_exit /\ UNCHANGED notRun
    \/ run_over /\ UNCHANGED notRun

\* The cluster is up and the pg_autoctl of every node runs.
InitRun ==
    /\ NetIs(LanAfter(ClusterSize), NoFile) /\ CmdIdle /\ ClusterUp
    /\ \A n \in Range(cluster_nodes(datanodes, monitor)) : procs[n] = "running"
    /\ WaitIdle /\ DstIdle /\ ExecIdle /\ SupIdle /\ FailIdle /\ RunIdle

SpecRun == InitRun /\ [][RunNext]_vars

\* C32: Cluster.communicate flushes before each of its waits, no wait is
\* longer than a second, a wait that sees the exit of the process is the
\* last one, and TimeoutExpired comes when the waits add up to the timeout
\* and not before.
C32_SlicesOfCommunicate ==
    /\ [][(who \in Flushing /\ cslices' = cslices + 1) =>
             /\ cflushes = cslices + 1 /\ cdry = 0
             /\ cwaited' - cwaited <= Second
             /\ cproc' = "exited" => cpc' = "caller"
             /\ cproc' = "running" => cwaited' = cwaited + SliceOf(ctimeout, cslices)
             /\ cpc' = "timedout" <=> (cproc' = "running" /\ cwaited' = ctimeout
                                         /\ cslices' = full_secs(ctimeout) + 1)]_vars
    /\ [](who \in Flushing /\ cpc \in {"flush", "slice"} =>
             cwaited = cslices * Second /\ cwaited <= ctimeout)

\* C32 witness: a timeout of two seconds and a half has run out after three
\* flushes and three waits.
C32_Witness ==
    /\ who = "execute" /\ cpc = "timedout"
    /\ ctimeout = 2 * Second + Second \div 2
    /\ cslices = 3 /\ cflushes = 3
    /\ cwaited = ctimeout

\* C35 (as claimed): when a call is over its process has ended and its
\* handle was released once, no with block ends without releasing, and no
\* two commands are alive on the node at a time.
C35_DeadAndReleasedOnce ==
    /\ [](cpc = "over" => cproc = "exited" /\ creleases = 1)
    /\ [](~cleaked)
    /\ [](~ctogether)

\* C36 (as claimed): with pg_autoctl processes running in the background, a
\* call never waits longer than a second without a flush_output.
C36_FlushedEverySecond ==
    [](who \in Callers /\ (\E n \in Namespaces : procs[n] = "running")
          => cdry <= Second)

\* C37 (as claimed): stop_postgres starts at most 60 attempts of a second
\* each at most, starts another one only after a timeout, returns True on
\* exit code 0 and only then, False on any other exit code, and raises only
\* when the 60th attempt timed out.
C37_StopPostgresAttempts ==
    /\ [](who = "stop_postgres" =>
             cattempts \in 1..STOP_ATTEMPTS /\ cwaited <= cattempts * Second)
    /\ [][(who = "stop_postgres" /\ cattempts' = cattempts + 1)
             => cpc = "timedout"]_vars
    /\ [](who = "stop_postgres" /\ cpc = "over" =>
             /\ cres = Returned("True") <=> (cslices = cattempts /\ creturncode = 0)
             /\ cres = Returned("False") => creturncode \notin {0, NoCode}
             /\ cres.error # "none" =>
                   cres = Raised("Exception") /\ cattempts = STOP_ATTEMPTS)

\* ------------------------------------------------------ specifications

InitNet == NetInit /\ CmdIdle /\ ProcIdle /\ WaitIdle /\ DstIdle
    /\ ExecIdle /\ SupIdle /\ FailIdle /\ RunIdle

SpecNet == InitNet /\ [][NetNext]_vars

InitCmd == NetIdle /\ CmdIdle /\ ProcIdle /\ WaitIdle /\ DstIdle
    /\ ExecIdle /\ SupIdle /\ FailIdle /\ RunIdle

SpecCmd == InitCmd /\ [][CmdNext]_vars

====
